---- MODULE Spec2Model ----
(***************************************************************************)
(* A model of the 6502 emulator core: the CPU (src/src/Cpu.py), the bus    *)
(* with its region registry (src/src/Bus.py), the PPU register file and    *)
(* dot/scanline stepping (src/src/ppu.py) and the PPU register window      *)
(* installed by SimpleHardware (src/src/hardware_stub.py).                 *)
(*                                                                         *)
(* Sequential Python code is modelled by operators that take the machine   *)
(* record m (all objects' fields) and return the machine after the call;   *)
(* an operator that also returns a value returns a record [m, val].        *)
(* Memories that Python allocates zero-filled (bytearray) are kept as      *)
(* functions over the addresses that hold a non-zero byte; every other     *)
(* address reads 0.  Log counters and diagnostic file dumps are left out.  *)
(***************************************************************************)
EXTENDS Integers, Sequences, FiniteSets, TLC

\* ------------------------------------------------------------------ bounds
\* driver calls of reset()/irq()/nmi() explored per run
MaxDriverCalls == 2
\* clock() is explored while total_cycles is below this
MaxCycles == 14
\* step() is explored while the frame counter is below this
MaxFrames == 2
\* bus.read() and bus.write() are explored while the driver made fewer calls
MaxBusCalls == 2
\* PPU register reads and writes are explored while the driver made fewer
MaxRegCalls == 4

\* the preprocessor is given source files of at most this many lines
MaxLines == 5

\* the assembler is given sources of at most this many lines
MaxStatements == 4

\* and sources of at most this many instructions with a numeric operand
MaxInstructions == 2

\* ------------------------------------------------------- program constants
DotsPerScanline == 341
VBlankScanline == 241
LastScanline == 260
OamDmaStall == 514
ResetCycles == 8
IrqCycles == 7
NmiCycles == 8
ResetSP == 253
StackBase == 256
NmiVector == 65530
ResetVector == 65532
IrqVector == 65534
PPUCTRL == 8192
PPUSTATUS == 8194
OAMADDR == 8195
OAMDATA == 8196
PPUSCROLL == 8197
PPUADDR == 8198
PPUDATA == 8199
OAMDMA == 16404

\* --------------------------------------------------------- integer helpers
\* bit k of the non-negative integer x
Bit(x, k) == (x \div (2 ^ k)) % 2

RECURSIVE BitAnd(_, _)
\* Python's a & b on non-negative integers
BitAnd(a, b) ==
  IF a = 0 \/ b = 0 THEN 0
  ELSE (a % 2) * (b % 2) + 2 * BitAnd(a \div 2, b \div 2)

RECURSIVE BitOr(_, _)
\* Python's a | b on non-negative integers
BitOr(a, b) ==
  IF a = 0 THEN b
  ELSE IF b = 0 THEN a
  ELSE (IF a % 2 = 1 \/ b % 2 = 1 THEN 1 ELSE 0) + 2 * BitOr(a \div 2, b \div 2)

RECURSIVE BitXor(_, _)
\* Python's a ^ b on non-negative integers
BitXor(a, b) ==
  IF a = 0 THEN b
  ELSE IF b = 0 THEN a
  ELSE ((a + b) % 2) + 2 * BitXor(a \div 2, b \div 2)

\* the element of the one-element set S. A handler's statement is bound as
\*   The({ rest : x \in {statement} })
\* which computes the statement once, before the rest that uses its result x;
\* nested bindings run innermost-last, so a handler reads from its last
\* binding line upwards
The(S) == CHOOSE x \in S : TRUE

\* x & 0xFF00
PageOf(x) == (x \div 256) * 256

\* a zero-filled bytearray read at index a
MemGet(f, a) == IF a \in DOMAIN f THEN f[a] ELSE 0

\* a zero-filled bytearray after f[a] = v
MemSet(f, a, v) ==
  IF v = 0 THEN [k \in (DOMAIN f) \ {a} |-> f[k]]
  ELSE [k \in (DOMAIN f) \cup {a} |-> IF k = a THEN v ELSE f[k]]

\* the empty (all-zero) bytearray
ZeroMem == [k \in {} |-> 0]

\* -------------------------------------------------------------- variables
VARIABLES
  regs,            \* CPU.regs: the Registers object
  ram,             \* Bus.ram
  mapped_regions,  \* Bus.mapped_regions
  ppu,             \* the FullPPU object attached as Bus.ppu
  halted,          \* CPU.halted
  cycles,          \* CPU.cycles: cycles of the last instruction
  total_cycles,    \* CPU.total_cycles
  opcode,          \* CPU.opcode
  addr_rel,        \* CPU.addr_rel
  last_instr_pc,   \* Bus._last_instr_pc
  nmi_count,       \* number of invocations of FullPPU.nmi_callback so far
  called,          \* the last call the driver made
  ret,             \* value returned by the last driver call
  driver_calls,    \* calls made by the driver so far (clock() not counted)
  initial,         \* registers as the harness set them before running
  mapper,          \* the mapper object whose map(bus) installed its regions
  hw,              \* the SimpleHardware object whose map_to_bus(bus) did
  bus_call,        \* the last bus.read / bus.write call of the driver
  pre,             \* the MacroProcessor object and its process_lines calls
  asm,             \* the Assembler object and its assemble call
  stepped          \* dots the driver has handed to ppu.step() so far

vars == <<regs, ram, mapped_regions, ppu, halted, cycles, total_cycles, opcode,
          addr_rel, last_instr_pc, nmi_count, called, ret, driver_calls,
          initial, mapper, hw, bus_call, pre, asm, stepped>>

\* the machine record the operators below work on
Machine ==
  [regs |-> regs, ram |-> ram, mapped_regions |-> mapped_regions, ppu |-> ppu,
   halted |-> halted, cycles |-> cycles, total_cycles |-> total_cycles,
   opcode |-> opcode, addr_rel |-> addr_rel, last_instr_pc |-> last_instr_pc,
   nmi_count |-> nmi_count, mapper |-> mapper, hw |-> hw]

\* the next state holds the machine m
Becomes(m) ==
  /\ regs' = m.regs
  /\ ram' = m.ram
  /\ mapped_regions' = m.mapped_regions
  /\ ppu' = m.ppu
  /\ halted' = m.halted
  /\ cycles' = m.cycles
  /\ total_cycles' = m.total_cycles
  /\ opcode' = m.opcode
  /\ addr_rel' = m.addr_rel
  /\ last_instr_pc' = m.last_instr_pc
  /\ nmi_count' = m.nmi_count
  /\ mapper' = m.mapper
  /\ hw' = m.hw

\* -------------------------------------------------------------- Registers
\* Registers.__init__
NewRegisters ==
  [a |-> 0, x |-> 0, y |-> 0, sp |-> ResetSP, pc |-> 0,
   c |-> 0, z |-> 0, i |-> 1, d |-> 0, b |-> 0, u |-> 1, v |-> 0, n |-> 0]

\* Registers.get_status_byte
get_status_byte(r, pushing) ==
  LET b_flag_val == IF pushing THEN 1 ELSE r.b
  IN r.n * 128 + r.v * 64 + 32 + b_flag_val * 16 + r.d * 8 + r.i * 4 + r.z * 2 + r.c

\* set_status_byte that also takes B from bit 4 of the byte
set_status_byte_taking_break(r, value) ==
  [r EXCEPT !.n = Bit(value, 7), !.v = Bit(value, 6), !.u = 1, !.b = Bit(value, 4),
            !.d = Bit(value, 3), !.i = Bit(value, 2),
            !.z = Bit(value, 1), !.c = Bit(value, 0)]

\* Registers.set_status_byte
set_status_byte(r, value) ==
  [r EXCEPT !.n = Bit(value, 7), !.v = Bit(value, 6), !.u = 1,
            !.d = Bit(value, 3), !.i = Bit(value, 2),
            !.z = Bit(value, 1), !.c = Bit(value, 0)]

\* Registers.update_flag_z
update_flag_z(r, result) == [r EXCEPT !.z = IF result % 256 = 0 THEN 1 ELSE 0]

\* Registers.update_flag_n
update_flag_n(r, result) == [r EXCEPT !.n = Bit(result, 7)]

\* update_flag_z followed by update_flag_n
update_zn(r, result) == update_flag_n(update_flag_z(r, result), result)

\* ------------------------------------------------------ FullPPU registers
\* FullPPU.__init__
NewPPU ==
  [regs |-> [k \in PPUCTRL..PPUDATA |-> 0],
   vram |-> ZeroMem, oam |-> ZeroMem, palette |-> ZeroMem,
   ppu_cycle |-> 0, scanline |-> 0, frame |-> 0, in_vblank |-> FALSE,
   nmi_callback |-> "None", nmi_fired |-> FALSE,
   addr_latch |-> 0, read_buffer |-> 0, temp_addr |-> 0,
   oam_dma_cycles |-> 0, oam_dma_active |-> FALSE]

\* FullPPU._vram_index
vram_index(index) == index % 2048

\* _read_palette without the mirroring of entry 0
read_palette_unmirrored(p, addr_byte) == MemGet(p.palette, addr_byte % 32)

\* FullPPU._read_palette
read_palette(p, addr_byte) ==
  LET idx == addr_byte % 32
  IN IF idx % 4 = 0 THEN MemGet(p.palette, 0) ELSE MemGet(p.palette, idx)

\* an increment of the VRAM address that ignores PPUCTRL
vram_inc_by_one(p) == 1

\* the VRAM address increment selected by PPUCTRL bit 2
vram_inc(p) == IF Bit(p.regs[PPUCTRL], 2) = 1 THEN 32 ELSE 1

\* ppu_read_register whose $2002 read leaves the address latch as it is
ppu_read_register_keeping_latch(p, addr0) ==
  LET addr == PPUCTRL + (addr0 % 8)
  IN IF addr = PPUSTATUS
     THEN LET val == p.regs[PPUSTATUS] % 256
          IN [p |-> [p EXCEPT !.regs[PPUSTATUS] = val - 128 * Bit(val, 7),
                              !.nmi_fired = FALSE],
              val |-> val]
     ELSE IF addr = PPUDATA
     THEN LET addr_v == p.regs[PPUADDR]
              inc == vram_inc(p)
              palette_read == 16128 <= addr_v /\ addr_v <= 16383
              val == IF palette_read THEN read_palette(p, addr_v % 256)
                     ELSE p.read_buffer % 256
              buf == IF palette_read THEN p.read_buffer
                     ELSE MemGet(p.vram, vram_index((addr_v + inc) % 2048))
          IN [p |-> [p EXCEPT !.read_buffer = buf,
                              !.regs[PPUADDR] = (addr_v + inc) % 65536],
              val |-> val]
     ELSE [p |-> p, val |-> p.regs[addr] % 256]

\* FullPPU.ppu_read_register: returns the PPU after the read and the value
ppu_read_register(p, addr0) ==
  LET addr == PPUCTRL + (addr0 % 8)
  IN IF addr = PPUSTATUS
     THEN LET val == p.regs[PPUSTATUS] % 256
          IN [p |-> [p EXCEPT !.regs[PPUSTATUS] = val - 128 * Bit(val, 7),
                              !.addr_latch = 0, !.nmi_fired = FALSE],
              val |-> val]
     ELSE IF addr = PPUDATA
     THEN LET addr_v == p.regs[PPUADDR]
              inc == vram_inc(p)
              palette_read == 16128 <= addr_v /\ addr_v <= 16383
              val == IF palette_read THEN read_palette(p, addr_v % 256)
                     ELSE p.read_buffer % 256
              buf == IF palette_read THEN p.read_buffer
                     ELSE MemGet(p.vram, vram_index((addr_v + inc) % 2048))
          IN [p |-> [p EXCEPT !.read_buffer = buf,
                              !.regs[PPUADDR] = (addr_v + inc) % 65536],
              val |-> val]
     ELSE [p |-> p, val |-> p.regs[addr] % 256]

\* FullPPU.ppu_write_register
ppu_write_register(p, addr0, val0) ==
  LET addr == PPUCTRL + (addr0 % 8)
      val == val0 % 256
  IN CASE addr = PPUSTATUS -> p
       [] addr = OAMDATA ->
            LET oamaddr == p.regs[OAMADDR] % 256
            IN [p EXCEPT !.oam = MemSet(p.oam, oamaddr, val),
                         !.regs[OAMADDR] = (oamaddr + 1) % 256]
       [] addr = PPUADDR ->
            IF p.addr_latch = 0
            THEN [p EXCEPT !.addr_latch = 1, !.temp_addr = val * 256]
            ELSE LET t == PageOf(p.temp_addr) + val
                 IN [p EXCEPT !.addr_latch = 0, !.temp_addr = t,
                              !.regs[PPUADDR] = t % 65536,
                              !.read_buffer =
                                 MemGet(p.vram, vram_index((t % 65536) % 2048))]
       [] addr = PPUDATA ->
            LET addr_v == p.regs[PPUADDR] % 65536
                q == IF 16128 <= addr_v /\ addr_v <= 16383
                     THEN LET pal_index == (addr_v - 16128) % 32
                          IN IF pal_index % 4 = 0
                             THEN [p EXCEPT !.palette = MemSet(p.palette, 0, val)]
                             ELSE [p EXCEPT !.palette = MemSet(p.palette, pal_index, val)]
                     ELSE [p EXCEPT !.vram = MemSet(p.vram, vram_index(addr_v % 2048), val)]
            IN [q EXCEPT !.regs[PPUADDR] = (p.regs[PPUADDR] + vram_inc(p)) % 65536]
       [] OTHER -> [p EXCEPT !.regs[addr] = val]

\* -------------------------------------------------------------------- Bus
\* the region Bus.__init__ registers: writes to $4014 start an OAM DMA
OamDmaRegion ==
  [start |-> OAMDMA, end |-> OAMDMA, read_fn |-> "None", write_fn |-> "oam_dma_handler"]

\* the region SimpleHardware.map_to_bus registers for the PPU registers
PpuRegion ==
  [start |-> 8192, end |-> 16383, read_fn |-> "ppu_read", write_fn |-> "ppu_write"]

\* SimpleHardware.__init__
NewHardware ==
  [controller_latch |-> 0, controller_state |-> <<0, 0>>, shift_regs |-> <<0, 0>>]

\* the regions SimpleHardware.map_to_bus registers, in its order: the PPU
\* registers, the two controller ports and a second handler for $4014
HardwareRegions ==
  <<PpuRegion,
    [start |-> 16406, end |-> 16406, read_fn |-> "controller_read",
     write_fn |-> "controller_write"],
    [start |-> 16407, end |-> 16407, read_fn |-> "controller_read",
     write_fn |-> "None"],
    [start |-> OAMDMA, end |-> OAMDMA, read_fn |-> "None", write_fn |-> "dma_write"]>>

\* ---------------------------------------------------------------- mappers
\* a mapper object mp holds its PRG as the bytes that are not zero (prg) and
\* its length (size / prg_size), and its PRG-RAM as a zero-filled bytearray

\* NROMMapper.__init__
NROMMapper(prg_bytes) ==
  [kind |-> "NROM", prg |-> prg_bytes.bytes, size |-> prg_bytes.len,
   prg_ram |-> ZeroMem]

\* NROMMapper.map: the regions it registers, in its order
NROMMapper_map(mp) ==
  <<[start |-> 24576, end |-> 32767, read_fn |-> "prg_ram_read",
     write_fn |-> "prg_ram_write"]>>
  \o (IF mp.size = 16384
      THEN <<[start |-> 32768, end |-> 49151, read_fn |-> "read_low",
              write_fn |-> "None"],
             [start |-> 49152, end |-> 65535, read_fn |-> "read_high",
              write_fn |-> "None"]>>
      ELSE <<[start |-> 32768, end |-> 65535, read_fn |-> "make_read",
              write_fn |-> "None"]>>)
  \o <<[start |-> 32768, end |-> 65535, read_fn |-> "None",
        write_fn |-> "write_ignore"]>>

\* NROMMapper.map.read_low
read_low(mp, addr) == MemGet(mp.prg, addr - 32768)

\* read_high that does not mirror: it indexes the PRG as read_low does
read_high_unmirrored(mp, addr) == MemGet(mp.prg, addr - 32768)

\* NROMMapper.map.read_high
read_high(mp, addr) == MemGet(mp.prg, addr - 49152)

\* NROMMapper.map.make_read(offset_base)._read
make_read(mp, offset_base, addr) ==
  LET offset == addr - 32768 + offset_base
  IN IF 0 <= offset /\ offset < mp.size THEN MemGet(mp.prg, offset) ELSE 0

\* UNROMMapper.__init__
UNROMMapper(prg_bytes) ==
  [kind |-> "UNROM", prg |-> prg_bytes.bytes, prg_size |-> prg_bytes.len,
   bank_count |-> IF prg_bytes.len \div 16384 > 1 THEN prg_bytes.len \div 16384
                  ELSE 1,
   cur_bank |-> 0, prg_ram |-> ZeroMem]

\* UNROMMapper.map: the regions it registers, in its order
UNROMMapper_map(mp) ==
  <<[start |-> 24576, end |-> 32767, read_fn |-> "prg_ram_read",
     write_fn |-> "prg_ram_write"],
    [start |-> 32768, end |-> 49151, read_fn |-> "read_bank_switchable",
     write_fn |-> "None"],
    [start |-> 49152, end |-> 65535, read_fn |-> "read_bank_fixed",
     write_fn |-> "None"],
    [start |-> 32768, end |-> 65535, read_fn |-> "None",
     write_fn |-> "bank_select_write"]>>

\* UNROMMapper.map.read_bank_switchable
read_bank_switchable(mp, addr) ==
  LET offset_in_bank == addr - 32768
      bank == mp.cur_bank % mp.bank_count
      global_offset == bank * 16384 + offset_in_bank
  IN IF 0 <= global_offset /\ global_offset < mp.prg_size
     THEN MemGet(mp.prg, global_offset)
     ELSE 255

\* read_bank_fixed that reads the selected bank
read_bank_fixed_following(mp, addr) ==
  LET offset_in_bank == addr - 49152
      bank == mp.cur_bank % mp.bank_count
      global_offset == bank * 16384 + offset_in_bank
  IN IF 0 <= global_offset /\ global_offset < mp.prg_size
     THEN MemGet(mp.prg, global_offset)
     ELSE 255

\* UNROMMapper.map.read_bank_fixed
read_bank_fixed(mp, addr) ==
  LET offset_in_bank == addr - 49152
      bank == IF mp.bank_count - 1 > 0 THEN mp.bank_count - 1 ELSE 0
      global_offset == bank * 16384 + offset_in_bank
  IN IF 0 <= global_offset /\ global_offset < mp.prg_size
     THEN MemGet(mp.prg, global_offset)
     ELSE 255

\* bank_select_write that keeps only the low two bits of the value
bank_select_write_two_bits(mp, val) ==
  LET new_bank == (val % 4) % (IF mp.bank_count > 1 THEN mp.bank_count ELSE 1)
  IN IF new_bank # mp.cur_bank THEN [mp EXCEPT !.cur_bank = new_bank] ELSE mp

\* UNROMMapper.map.bank_select_write (Bus.mapper_write_callback is None)
bank_select_write(mp, val) ==
  LET new_bank == (val % 256) % (IF mp.bank_count > 1 THEN mp.bank_count ELSE 1)
  IN IF new_bank # mp.cur_bank THEN [mp EXCEPT !.cur_bank = new_bank] ELSE mp

\* _find_region that prefers the region registered last
find_region_latest(regions, address, mode) ==
  LET covering == {k \in 1..Len(regions) :
                     regions[k].start <= address /\ address <= regions[k].end}
      handling == {k \in covering :
                     IF mode = "read" THEN regions[k].read_fn # "None"
                     ELSE regions[k].write_fn # "None"}
      Max(S) == CHOOSE k \in S : \A j \in S : k >= j
  IN IF handling # {} THEN Max(handling)
     ELSE IF covering # {} THEN Max(covering)
     ELSE 0

\* Bus._find_region: the index of the chosen region, 0 when there is none
find_region(regions, address, mode) ==
  LET covering == {k \in 1..Len(regions) :
                     regions[k].start <= address /\ address <= regions[k].end}
      handling == {k \in covering :
                     IF mode = "read" THEN regions[k].read_fn # "None"
                     ELSE regions[k].write_fn # "None"}
      Min(S) == CHOOSE k \in S : \A j \in S : k <= j
  IN IF handling # {} THEN Min(handling)
     ELSE IF covering # {} THEN Min(covering)
     ELSE 0

\* Bus.read: returns the machine after the read and the byte read
read(m, address0) ==
  LET address == address0 % 65536
      region == find_region(m.mapped_regions, address, "read")
      fn == IF region = 0 THEN "None" ELSE m.mapped_regions[region].read_fn
  IN CASE fn = "ppu_read" ->
            The({ [m |-> [m EXCEPT !.ppu = r.p], val |-> r.val % 256]
                  : r \in {ppu_read_register(m.ppu, address)} })
       [] fn = "controller_read" ->
            \* SimpleHardware.map_to_bus.controller_read
            LET idx == IF address = 16406 THEN 1 ELSE 2
                shift == m.hw.shift_regs[idx]
            IN [m |-> [m EXCEPT !.hw.shift_regs[idx] = BitOr(shift \div 2, 128)],
                val |-> (shift % 2) % 256]
       [] fn = "prg_ram_read" ->
            [m |-> m, val |-> MemGet(m.mapper.prg_ram, address - 24576) % 256]
       [] fn = "read_low" -> [m |-> m, val |-> read_low(m.mapper, address) % 256]
       [] fn = "read_high" -> [m |-> m, val |-> read_high(m.mapper, address) % 256]
       [] fn = "make_read" ->
            [m |-> m, val |-> make_read(m.mapper, 0, address) % 256]
       [] fn = "read_bank_switchable" ->
            [m |-> m, val |-> read_bank_switchable(m.mapper, address) % 256]
       [] fn = "read_bank_fixed" ->
            [m |-> m, val |-> read_bank_fixed(m.mapper, address) % 256]
       [] OTHER -> [m |-> m, val |-> MemGet(m.ram, address)]

\* Bus.read_word
read_word(m, address0) ==
  LET address == address0 % 65536
  IN The({ The({ [m |-> high.m, val |-> high.val * 256 + low.val]
                 : high \in {read(low.m, (address + 1) % 65536)} })
           : low \in {read(m, address)} })

RECURSIVE oam_dma_read(_, _, _, _)
\* FullPPU.oam_dma, step 1: the bus reads of base+lo .. base+hi-1 that fill
\* ram_bloco, made in ascending order (the range, a power of four long, is
\* quartered to keep the evaluation shallow; lower quarters are read first)
oam_dma_read(m, base, lo, hi) ==
  IF hi - lo = 1
  THEN The({ [m |-> r.m, val |-> MemSet(ZeroMem, lo, r.val)]
             : r \in {read(m, (base + lo) % 65536)} })
  ELSE LET q == (hi - lo) \div 4
       IN The({ The({ The({ The({
            [m |-> r4.m, val |-> r1.val @@ r2.val @@ r3.val @@ r4.val]
            : r4 \in {oam_dma_read(r3.m, base, lo + 3 * q, hi)} })
            : r3 \in {oam_dma_read(r2.m, base, lo + 2 * q, lo + 3 * q)} })
            : r2 \in {oam_dma_read(r1.m, base, lo + q, lo + 2 * q)} })
            : r1 \in {oam_dma_read(m, base, lo, lo + q)} })

\* FullPPU.oam_dma
oam_dma(m, page) ==
  The({ [r.m EXCEPT !.ppu.oam = r.val,
                    !.ppu.oam_dma_cycles = OamDmaStall,
                    !.ppu.oam_dma_active = TRUE]
        : r \in {oam_dma_read(m, (page % 256) * 256, 0, 256)} })

\* Bus.write without `address &= 0xFFFF` and `value &= 0xFF`
write_unmasked(m, address0, value0) ==
  LET address == address0
      value == value0
      region == find_region(m.mapped_regions, address, "write")
      fn == IF region = 0 THEN "None" ELSE m.mapped_regions[region].write_fn
  IN CASE fn = "oam_dma_handler" -> oam_dma(m, value)
       [] fn = "dma_write" -> oam_dma(m, value)
       [] fn = "ppu_write" ->
            [m EXCEPT !.ppu = ppu_write_register(m.ppu, address, value)]
       [] fn = "controller_write" ->
            \* SimpleHardware.map_to_bus.controller_write
            LET prev == m.hw.controller_latch
                latch == value % 2
            IN [m EXCEPT !.hw.controller_latch = latch,
                         !.hw.shift_regs = IF prev = 1 /\ latch = 0
                                           THEN m.hw.controller_state ELSE @]
       [] fn = "prg_ram_write" ->
            [m EXCEPT !.mapper.prg_ram = MemSet(@, address - 24576, value % 256)]
       [] fn = "write_ignore" -> m
       [] fn = "bank_select_write" ->
            [m EXCEPT !.mapper = bank_select_write(@, value)]
       [] OTHER -> [m EXCEPT !.ram = MemSet(m.ram, address, value)]

\* Bus.write
write(m, address0, value0) ==
  LET address == address0 % 65536
      value == value0 % 256
      region == find_region(m.mapped_regions, address, "write")
      fn == IF region = 0 THEN "None" ELSE m.mapped_regions[region].write_fn
  IN CASE fn = "oam_dma_handler" -> oam_dma(m, value)
       [] fn = "dma_write" -> oam_dma(m, value)
       [] fn = "ppu_write" ->
            [m EXCEPT !.ppu = ppu_write_register(m.ppu, address, value)]
       [] fn = "controller_write" ->
            \* SimpleHardware.map_to_bus.controller_write
            LET prev == m.hw.controller_latch
                latch == value % 2
            IN [m EXCEPT !.hw.controller_latch = latch,
                         !.hw.shift_regs = IF prev = 1 /\ latch = 0
                                           THEN m.hw.controller_state ELSE @]
       [] fn = "prg_ram_write" ->
            [m EXCEPT !.mapper.prg_ram = MemSet(@, address - 24576, value % 256)]
       [] fn = "write_ignore" -> m
       [] fn = "bank_select_write" ->
            [m EXCEPT !.mapper = bank_select_write(@, value)]
       [] OTHER -> [m EXCEPT !.ram = MemSet(m.ram, address, value)]

\* ------------------------------------------------------- CPU: stack, fetch
\* push_byte without the `& 0xFF` on the stack pointer
push_byte_no_wrap(m, value) ==
  [write(m, StackBase + m.regs.sp, value % 256) EXCEPT !.regs.sp = m.regs.sp - 1]

\* CPU.push_byte
push_byte(m, value) ==
  [write(m, StackBase + m.regs.sp, value % 256)
     EXCEPT !.regs.sp = (m.regs.sp - 1) % 256]

\* CPU.push_word
push_word(m, value) ==
  The({ push_byte(high_pushed, value % 256)
        : high_pushed \in {push_byte(m, (value \div 256) % 256)} })

\* CPU.pop_byte
pop_byte(m) ==
  LET sp == (m.regs.sp + 1) % 256
  IN read([m EXCEPT !.regs.sp = sp], StackBase + sp)

\* CPU.pop_word
pop_word(m) ==
  The({ The({ [m |-> high_byte.m, val |-> high_byte.val * 256 + low_byte.val]
              : high_byte \in {pop_byte(low_byte.m)} })
        : low_byte \in {pop_byte(m)} })

\* CPU.fetch_byte
fetch_byte(m) ==
  The({ [m |-> [r.m EXCEPT !.regs.pc = (m.regs.pc + 1) % 65536], val |-> r.val]
        : r \in {read(m, m.regs.pc)} })

\* CPU.fetch_word
fetch_word(m) ==
  The({ The({ [m |-> high_byte.m, val |-> high_byte.val * 256 + low_byte.val]
              : high_byte \in {fetch_byte(low_byte.m)} })
        : low_byte \in {fetch_byte(m)} })

\* ------------------------------------------------------------- interrupts
\* reset that reloads PC and the counters but keeps the registers
reset_keeping_registers(m) ==
  The({ [m |-> [v.m EXCEPT !.regs.pc = v.val, !.cycles = 0, !.total_cycles = 0,
                           !.halted = FALSE, !.addr_rel = 0, !.opcode = 0],
         val |-> ResetCycles]
        : v \in {read_word(m, ResetVector)} })

\* CPU.reset: the machine after the call and the cycles it returns
reset(m) ==
  The({ [m |-> [v.m EXCEPT !.regs.pc = v.val, !.cycles = 0, !.total_cycles = 0,
                           !.halted = FALSE, !.addr_rel = 0, !.opcode = 0],
         val |-> ResetCycles]
        : v \in {read_word([m EXCEPT !.regs = NewRegisters], ResetVector)} })

\* the body CPU.irq and CPU.nmi share: push PC, push status, set I, load PC
interrupt(m, vector) ==
  The({ The({ The({ The({ [v.m EXCEPT !.regs.pc = v.val]
        : v \in {read_word([pushed EXCEPT !.regs.i = 1], vector)} })
        : pushed \in {push_byte(cleared, get_status_byte(cleared.regs, TRUE))} })
        : cleared \in {[pushed_pc EXCEPT !.regs.b = 0]} })
        : pushed_pc \in {push_word(m, m.regs.pc)} })

\* irq that does not test the I flag
irq_ignoring_mask(m) == [m |-> interrupt(m, IrqVector), val |-> IrqCycles]

\* CPU.irq: the machine after the call and the cycles it returns
irq(m) ==
  IF m.regs.i = 1 THEN [m |-> m, val |-> 0]
  ELSE [m |-> interrupt(m, IrqVector), val |-> IrqCycles]

\* CPU.nmi: the machine after the call and the cycles it returns
nmi(m) == [m |-> interrupt(m, NmiVector), val |-> NmiCycles]

\* ----------------------------------------------------------- FullPPU.step
\* a callback that only notes the request and leaves the CPU entry for later
nmi_callback_deferred(m) == [m EXCEPT !.nmi_count = m.nmi_count + 1]

\* the callback wired to FullPPU.nmi_callback: lambda: cpu.nmi()
nmi_callback(m) == [nmi(m).m EXCEPT !.nmi_count = m.nmi_count + 1]

\* FullPPU.step, the part run on entering scanline 241
step_vblank(m) ==
  The({ IF Bit(s.ppu.regs[PPUCTRL], 7) = 1 /\ s.ppu.nmi_callback # "None"
           /\ ~s.ppu.nmi_fired
        THEN [nmi_callback(s) EXCEPT !.ppu.nmi_fired = TRUE]
        ELSE s
        : s \in {[m EXCEPT !.ppu.in_vblank = TRUE,
                           !.ppu.regs[PPUSTATUS] = BitOr(m.ppu.regs[PPUSTATUS], 128)]} })

\* FullPPU.step, the OAM DMA stall accounting done in each loop iteration
step_dma(m, ppu_clocks) ==
  IF m.ppu.oam_dma_active
  THEN LET cpu_cycles == ppu_clocks \div 3
           left == IF m.ppu.oam_dma_cycles - cpu_cycles > 0
                   THEN m.ppu.oam_dma_cycles - cpu_cycles ELSE 0
       IN [m EXCEPT !.ppu.oam_dma_cycles = left,
                    !.ppu.oam_dma_active = (left # 0)]
  ELSE m

\* the frame wrap without re-arming _nmi_fired
step_frame_keeping_nmi_fired(m) ==
  IF m.ppu.scanline > LastScanline
  THEN LET st == m.ppu.regs[PPUSTATUS]
       IN [m EXCEPT !.ppu.scanline = 0, !.ppu.frame = m.ppu.frame + 1,
                    !.ppu.in_vblank = FALSE,
                    !.ppu.regs[PPUSTATUS] = st - 128 * Bit(st, 7)]
  ELSE m

\* the frame wrap that leaves PPUSTATUS as it is
step_frame_keeping_status(m) ==
  IF m.ppu.scanline > LastScanline
  THEN [m EXCEPT !.ppu.scanline = 0, !.ppu.frame = m.ppu.frame + 1,
                 !.ppu.in_vblank = FALSE, !.ppu.nmi_fired = FALSE]
  ELSE m

\* FullPPU.step, the frame wrap done once the scanline passes 260
step_frame(m) ==
  IF m.ppu.scanline > LastScanline
  THEN LET st == m.ppu.regs[PPUSTATUS]
       IN [m EXCEPT !.ppu.scanline = 0, !.ppu.frame = m.ppu.frame + 1,
                    !.ppu.in_vblank = FALSE,
                    !.ppu.regs[PPUSTATUS] = st - 128 * Bit(st, 7),
                    !.ppu.nmi_fired = FALSE]
  ELSE m

\* FullPPU.step, one iteration of the loop `while self.ppu_cycle >= 341`
step_line(m, ppu_clocks) ==
  The({ The({ The({ step_frame(dma)
        : dma \in {step_dma(vbl, ppu_clocks)} })
        : vbl \in {IF line.ppu.scanline = VBlankScanline THEN step_vblank(line)
                   ELSE line} })
        : line \in {[m EXCEPT !.ppu.ppu_cycle = m.ppu.ppu_cycle - DotsPerScanline,
                              !.ppu.scanline = m.ppu.scanline + 1]} })

RECURSIVE step_loop(_, _, _)
\* FullPPU.step, the loop `while self.ppu_cycle >= 341`: each iteration takes
\* 341 off ppu_cycle, so it runs count = ppu_cycle div 341 times (the count
\* is halved to keep the evaluation shallow; the iterations stay in order)
step_loop(m, ppu_clocks, count) ==
  IF count = 0 THEN m
  ELSE IF count = 1 THEN step_line(m, ppu_clocks)
  ELSE The({ step_loop(earlier, ppu_clocks, count - (count \div 2))
             : earlier \in {step_loop(m, ppu_clocks, count \div 2)} })

\* FullPPU.step
step(m, ppu_clocks) ==
  IF ppu_clocks <= 0 THEN m
  ELSE LET added == m.ppu.ppu_cycle + ppu_clocks
       IN step_loop([m EXCEPT !.ppu.ppu_cycle = added], ppu_clocks,
                    added \div DotsPerScanline)

\* ------------------------------------------------- CPU: addressing modes
\* each mode returns the machine after its fetches, the effective address
\* (the signed offset for REL) and the page_crossed flag

\* CPU.IMP
IMP(m) == [m |-> m, addr |-> 0, page_crossed |-> FALSE]

\* CPU.ACC
ACC(m) == [m |-> m, addr |-> 0, page_crossed |-> FALSE]

\* CPU.IMM
IMM(m) ==
  [m |-> [m EXCEPT !.regs.pc = (m.regs.pc + 1) % 65536],
   addr |-> m.regs.pc, page_crossed |-> FALSE]

\* CPU.ZP0
ZP0(m) ==
  The({ [m |-> f.m, addr |-> f.val % 256, page_crossed |-> FALSE]
        : f \in {fetch_byte(m)} })

\* CPU.ZPX
ZPX(m) ==
  The({ [m |-> f.m, addr |-> (f.val + f.m.regs.x) % 256, page_crossed |-> FALSE]
        : f \in {fetch_byte(m)} })

\* CPU.ZPY
ZPY(m) ==
  The({ [m |-> f.m, addr |-> (f.val + f.m.regs.y) % 256, page_crossed |-> FALSE]
        : f \in {fetch_byte(m)} })

\* CPU.ABS
ABS(m) ==
  The({ [m |-> f.m, addr |-> f.val, page_crossed |-> FALSE]
        : f \in {fetch_word(m)} })

\* CPU.ABX
ABX(m) ==
  The({ LET addr == (f.val + f.m.regs.x) % 65536
        IN [m |-> f.m, addr |-> addr, page_crossed |-> PageOf(f.val) # PageOf(addr)]
        : f \in {fetch_word(m)} })

\* CPU.ABY
ABY(m) ==
  The({ LET addr == (f.val + f.m.regs.y) % 65536
        IN [m |-> f.m, addr |-> addr, page_crossed |-> PageOf(f.val) # PageOf(addr)]
        : f \in {fetch_word(m)} })

\* IND that always reads the high byte from ptr + 1
IND_without_page_wrap(m) ==
  The({ The({ The({ The({
        [m |-> high_byte.m, addr |-> high_byte.val * 256 + low_byte.val,
         page_crossed |-> FALSE]
        : high_byte \in {read(low_byte.m, ptr + 1)} })
        : low_byte \in {read(f.m, ptr)} })
        : ptr \in {f.val} })
        : f \in {fetch_word(m)} })

\* CPU.IND
IND(m) ==
  The({ The({ The({ The({
        [m |-> high_byte.m, addr |-> high_byte.val * 256 + low_byte.val,
         page_crossed |-> FALSE]
        : high_byte \in {read(low_byte.m, IF ptr % 256 = 255 THEN PageOf(ptr)
                                          ELSE ptr + 1)} })
        : low_byte \in {read(f.m, ptr)} })
        : ptr \in {f.val} })
        : f \in {fetch_word(m)} })

\* CPU.IZX
IZX(m) ==
  The({ The({ The({ The({
        [m |-> high_byte.m, addr |-> high_byte.val * 256 + low_byte.val,
         page_crossed |-> FALSE]
        : high_byte \in {read(low_byte.m, (ptr + 1) % 256)} })
        : low_byte \in {read(f.m, ptr)} })
        : ptr \in {(f.val + f.m.regs.x) % 256} })
        : f \in {fetch_byte(m)} })

\* CPU.IZY
IZY(m) ==
  The({ The({ The({
        LET base_addr == high_byte.val * 256 + low_byte.val
            addr == (base_addr + high_byte.m.regs.y) % 65536
        IN [m |-> high_byte.m, addr |-> addr,
            page_crossed |-> PageOf(base_addr) # PageOf(addr)]
        : high_byte \in {read(low_byte.m, (f.val + 1) % 256)} })
        : low_byte \in {read(f.m, f.val)} })
        : f \in {fetch_byte(m)} })

\* REL that takes the operand byte as an unsigned offset
REL_unsigned(m) ==
  The({ [m |-> [f.m EXCEPT !.addr_rel = f.val], addr |-> f.val,
         page_crossed |-> FALSE]
        : f \in {fetch_byte(m)} })

\* CPU.REL
REL(m) ==
  The({ LET offset == IF Bit(f.val, 7) = 1 THEN f.val - 256 ELSE f.val
        IN [m |-> [f.m EXCEPT !.addr_rel = offset], addr |-> offset,
            page_crossed |-> FALSE]
        : f \in {fetch_byte(m)} })

\* the call addr_mode_func() for the mode named in the lookup table
addr_mode_func(mode, m) ==
  CASE mode = "IMP" -> IMP(m)
    [] mode = "ACC" -> ACC(m)
    [] mode = "IMM" -> IMM(m)
    [] mode = "ZP0" -> ZP0(m)
    [] mode = "ZPX" -> ZPX(m)
    [] mode = "ZPY" -> ZPY(m)
    [] mode = "ABS" -> ABS(m)
    [] mode = "ABX" -> ABX(m)
    [] mode = "ABY" -> ABY(m)
    [] mode = "IND" -> IND(m)
    [] mode = "IZX" -> IZX(m)
    [] mode = "IZY" -> IZY(m)
    [] mode = "REL" -> REL(m)

\* CPU.fetch_operand: the machine, the operand value and page_crossed
fetch_operand(m, mode) ==
  IF mode = "ACC" THEN [m |-> m, val |-> m.regs.a, page_crossed |-> FALSE]
  ELSE The({ IF mode = "IMP" \/ mode = "REL"
             THEN [m |-> am.m, val |-> 0, page_crossed |-> am.page_crossed]
             ELSE The({ [m |-> r.m, val |-> r.val, page_crossed |-> am.page_crossed]
                        : r \in {read(am.m, am.addr)} })
             : am \in {addr_mode_func(mode, m)} })

\* ---------------------------------------------------- CPU: instructions
\* each handler returns the machine after it and the extra cycles it reports

\* `return 1 if page_crossed else 0`
PagePenalty(page_crossed) == IF page_crossed THEN 1 ELSE 0

\* the V flag as ADC and SBC compute it: (~(a ^ operand) & (a ^ temp)) & 0x80
overflow_flag(a, operand, temp) ==
  (1 - Bit(BitXor(a, operand), 7)) * Bit(BitXor(a, temp), 7)

\* CPU.ADC
ADC(m, mode) ==
  The({ The({ The({
        [m |-> [f.m EXCEPT !.regs = [flags EXCEPT !.a = temp % 256]],
         val |-> PagePenalty(f.page_crossed)]
        : flags \in {update_flag_n(
                       [update_flag_z([f.m.regs EXCEPT !.c = IF temp > 255 THEN 1 ELSE 0],
                                      temp)
                          EXCEPT !.v = overflow_flag(f.m.regs.a, f.val, temp)], temp)} })
        : temp \in {f.m.regs.a + f.val + f.m.regs.c} })
        : f \in {fetch_operand(m, mode)} })

\* CPU.SBC
SBC(m, mode) ==
  The({ The({ The({ The({
        [m |-> [f.m EXCEPT !.regs = [flags EXCEPT !.a = temp % 256]],
         val |-> PagePenalty(f.page_crossed)]
        : flags \in {update_flag_n(
                       [update_flag_z([f.m.regs EXCEPT !.c = IF temp > 255 THEN 1 ELSE 0],
                                      temp)
                          EXCEPT !.v = overflow_flag(f.m.regs.a, f.val, temp)], temp)} })
        : temp \in {f.m.regs.a + value + f.m.regs.c} })
        : value \in {BitXor(f.val, 255)} })
        : f \in {fetch_operand(m, mode)} })

\* CPU.AND
AND(m, mode) ==
  The({ The({
        [m |-> [f.m EXCEPT !.regs = update_zn([f.m.regs EXCEPT !.a = a], a)],
         val |-> PagePenalty(f.page_crossed)]
        : a \in {BitAnd(f.m.regs.a, f.val)} })
        : f \in {fetch_operand(m, mode)} })

\* CPU.ORA
ORA(m, mode) ==
  The({ The({
        [m |-> [f.m EXCEPT !.regs = update_zn([f.m.regs EXCEPT !.a = a], a)],
         val |-> PagePenalty(f.page_crossed)]
        : a \in {BitOr(f.m.regs.a, f.val)} })
        : f \in {fetch_operand(m, mode)} })

\* CPU.EOR
EOR(m, mode) ==
  The({ The({
        [m |-> [f.m EXCEPT !.regs = update_zn([f.m.regs EXCEPT !.a = a], a)],
         val |-> PagePenalty(f.page_crossed)]
        : a \in {BitXor(f.m.regs.a, f.val)} })
        : f \in {fetch_operand(m, mode)} })

\* the carry ASL, LSR, ROL and ROR take from the operand: bit 7 when
\* shifting left, bit 0 when shifting right
shift_carry(name, operand) ==
  IF name \in {"ASL", "ROL"} THEN Bit(operand, 7) ELSE operand % 2

\* the result of ASL, LSR, ROL and ROR on the operand with old carry c
shift_result(name, operand, c) ==
  CASE name = "ASL" -> (operand * 2) % 256
    [] name = "LSR" -> (operand \div 2) % 256
    [] name = "ROL" -> BitOr((operand * 2) % 256, c % 2)
    [] name = "ROR" -> BitOr((c * 128) % 256, operand \div 2)

\* the shape ASL, LSR, ROL and ROR share: read the accumulator or the memory
\* operand, set C from the operand, store the result back and set Z and N
\* from it
shift(m, mode, name) ==
  IF mode = "ACC"
  THEN The({ [m |-> [m EXCEPT !.regs = update_zn(
                       [m.regs EXCEPT !.c = shift_carry(name, m.regs.a),
                                      !.a = res % 256],
                       res)],
              val |-> 0]
             : res \in {shift_result(name, m.regs.a, m.regs.c)} })
  ELSE The({ The({ The({ The({
             [m |-> [w EXCEPT !.regs = update_zn(w.regs, res)], val |-> 0]
             : w \in {write([rd.m EXCEPT !.regs.c = shift_carry(name, rd.val)],
                            am.addr, res)} })
             : res \in {shift_result(name, rd.val, rd.m.regs.c)} })
             : rd \in {read(am.m, am.addr)} })
             : am \in {addr_mode_func(mode, m)} })

\* CPU.ASL
ASL(m, mode) == shift(m, mode, "ASL")

\* CPU.LSR
LSR(m, mode) == shift(m, mode, "LSR")

\* CPU.ROL
ROL(m, mode) == shift(m, mode, "ROL")

\* CPU.ROR
ROR(m, mode) == shift(m, mode, "ROR")

\* the shape LDA, LDX and LDY share: load the operand into register reg
load(m, mode, reg) ==
  The({ [m |-> [f.m EXCEPT !.regs = update_zn([f.m.regs EXCEPT ![reg] = f.val], f.val)],
         val |-> PagePenalty(f.page_crossed)]
        : f \in {fetch_operand(m, mode)} })

\* CPU.LDA
LDA(m, mode) == load(m, mode, "a")

\* CPU.LDX
LDX(m, mode) == load(m, mode, "x")

\* CPU.LDY
LDY(m, mode) == load(m, mode, "y")

\* the shape STA, STX and STY share: store register reg at the address
store(m, mode, reg) ==
  The({ [m |-> write(am.m, am.addr, am.m.regs[reg]), val |-> 0]
        : am \in {addr_mode_func(mode, m)} })

\* CPU.STA
STA(m, mode) == store(m, mode, "a")

\* CPU.STX
STX(m, mode) == store(m, mode, "x")

\* CPU.STY
STY(m, mode) == store(m, mode, "y")

\* the shape INC and DEC share: add delta to the memory operand
incdec_mem(m, mode, delta) ==
  The({ The({ The({ The({
        [m |-> [w EXCEPT !.regs = update_zn(w.regs, value)], val |-> 0]
        : w \in {write(rd.m, am.addr, value)} })
        : value \in {(rd.val + delta) % 256} })
        : rd \in {read(am.m, am.addr)} })
        : am \in {addr_mode_func(mode, m)} })

\* CPU.INC
INC(m, mode) == incdec_mem(m, mode, 1)

\* CPU.DEC
DEC(m, mode) == incdec_mem(m, mode, -1)

\* the shape INX, INY, DEX, DEY and the transfers TAX, TXA, TAY, TYA, TSX
\* share: register reg takes value, Z and N follow it
set_reg(m, reg, value) ==
  [m |-> [m EXCEPT !.regs = update_zn([m.regs EXCEPT ![reg] = value], value)],
   val |-> 0]

\* CPU.INX
INX(m, mode) == set_reg(m, "x", (m.regs.x + 1) % 256)

\* CPU.INY
INY(m, mode) == set_reg(m, "y", (m.regs.y + 1) % 256)

\* CPU.DEX
DEX(m, mode) == set_reg(m, "x", (m.regs.x - 1) % 256)

\* CPU.DEY
DEY(m, mode) == set_reg(m, "y", (m.regs.y - 1) % 256)

\* CPU.TAX
TAX(m, mode) == set_reg(m, "x", m.regs.a)

\* CPU.TXA
TXA(m, mode) == set_reg(m, "a", m.regs.x)

\* CPU.TAY
TAY(m, mode) == set_reg(m, "y", m.regs.a)

\* CPU.TYA
TYA(m, mode) == set_reg(m, "a", m.regs.y)

\* CPU.TSX
TSX(m, mode) == set_reg(m, "x", m.regs.sp)

\* CPU.TXS
TXS(m, mode) == [m |-> [m EXCEPT !.regs.sp = m.regs.x], val |-> 0]

\* CPU.PHA
PHA(m, mode) == [m |-> push_byte(m, m.regs.a), val |-> 0]

\* CPU.PLA
PLA(m, mode) ==
  The({ [m |-> [p.m EXCEPT !.regs = update_zn([p.m.regs EXCEPT !.a = p.val], p.val)],
         val |-> 0]
        : p \in {pop_byte(m)} })

\* CPU.PHP
PHP(m, mode) == [m |-> push_byte(m, get_status_byte(m.regs, TRUE)), val |-> 0]

\* PLP that pops the byte and leaves the flags as they are
PLP_discarding(m, mode) ==
  The({ [m |-> p.m, val |-> 0] : p \in {pop_byte(m)} })

\* CPU.PLP
PLP(m, mode) ==
  The({ [m |-> [p.m EXCEPT !.regs = set_status_byte(p.m.regs, p.val)], val |-> 0]
        : p \in {pop_byte(m)} })

\* CPU.JMP
JMP(m, mode) ==
  The({ [m |-> [am.m EXCEPT !.regs.pc = am.addr], val |-> 0]
        : am \in {addr_mode_func(mode, m)} })

\* JSR that pushes the address of the next instruction instead of PC - 1
JSR_pushing_next(m, mode) ==
  The({ The({ [m |-> [pushed EXCEPT !.regs.pc = am.addr], val |-> 0]
              : pushed \in {push_word(am.m, am.m.regs.pc)} })
        : am \in {addr_mode_func(mode, m)} })

\* CPU.JSR
JSR(m, mode) ==
  The({ The({ The({ [m |-> [pushed EXCEPT !.regs.pc = am.addr], val |-> 0]
        : pushed \in {push_word(am.m, return_addr)} })
        : return_addr \in {(am.m.regs.pc - 1) % 65536} })
        : am \in {addr_mode_func(mode, m)} })

\* CPU.RTS
RTS(m, mode) ==
  The({ [m |-> [p.m EXCEPT !.regs.pc = (p.val + 1) % 65536], val |-> 0]
        : p \in {pop_word(m)} })

\* CPU.RTI
RTI(m, mode) ==
  The({ The({ The({ The({ The({ The({ The({
        [m |-> [pc_high.m EXCEPT !.regs.pc = pc_high.val * 256 + pc_low.val],
         val |-> 0]
        : pc_high \in {read(s4, StackBase + s4.regs.sp)} })
        : s4 \in {[pc_low.m EXCEPT !.regs.sp = (s3.regs.sp + 1) % 256]} })
        : pc_low \in {read(s3, StackBase + s3.regs.sp)} })
        : s3 \in {[s2 EXCEPT !.regs.sp = (s2.regs.sp + 1) % 256]} })
        : s2 \in {[status.m EXCEPT !.regs = set_status_byte(status.m.regs, status.val)]} })
        : status \in {read(s1, StackBase + s1.regs.sp)} })
        : s1 \in {[m EXCEPT !.regs.sp = (m.regs.sp + 1) % 256]} })

\* the body the eight branch handlers share: the branch is taken when the
\* flag has the value
branch(m, mode, flag, value) ==
  The({ IF am.m.regs[flag] = value
        THEN LET old_pc == am.m.regs.pc
                 new_pc == (am.m.regs.pc + am.m.addr_rel) % 65536
             IN [m |-> [am.m EXCEPT !.regs.pc = new_pc],
                 val |-> IF PageOf(old_pc) # PageOf(new_pc) THEN 2 ELSE 1]
        ELSE [m |-> am.m, val |-> 0]
        : am \in {addr_mode_func(mode, m)} })

\* CPU.BCC
BCC(m, mode) == branch(m, mode, "c", 0)

\* CPU.BCS
BCS(m, mode) == branch(m, mode, "c", 1)

\* CPU.BEQ
BEQ(m, mode) == branch(m, mode, "z", 1)

\* CPU.BMI
BMI(m, mode) == branch(m, mode, "n", 1)

\* CPU.BNE
BNE(m, mode) == branch(m, mode, "z", 0)

\* CPU.BPL
BPL(m, mode) == branch(m, mode, "n", 0)

\* CPU.BVC
BVC(m, mode) == branch(m, mode, "v", 0)

\* CPU.BVS
BVS(m, mode) == branch(m, mode, "v", 1)

\* the shape CMP, CPX and CPY share: compare register reg with the operand
compare(m, mode, reg) ==
  The({ LET r == f.m.regs
            result == (r[reg] - f.val) % 256
        IN [m |-> [f.m EXCEPT !.regs =
                      update_zn([r EXCEPT !.c = IF r[reg] >= f.val THEN 1 ELSE 0],
                                result)],
            page_crossed |-> f.page_crossed]
        : f \in {fetch_operand(m, mode)} })

\* CPU.CMP
CMP(m, mode) ==
  The({ [m |-> k.m, val |-> PagePenalty(k.page_crossed)]
        : k \in {compare(m, mode, "a")} })

\* CPU.CPX
CPX(m, mode) == [m |-> compare(m, mode, "x").m, val |-> 0]

\* CPU.CPY
CPY(m, mode) == [m |-> compare(m, mode, "y").m, val |-> 0]

\* CPU.BIT
BIT(m, mode) ==
  The({ [m |-> [f.m EXCEPT !.regs = [update_flag_z(f.m.regs, BitAnd(f.m.regs.a, f.val))
                                       EXCEPT !.n = Bit(f.val, 7), !.v = Bit(f.val, 6)]],
         val |-> 0]
        : f \in {fetch_operand(m, mode)} })

\* the shape CLC, SEC, CLI, SEI, CLD, SED and CLV share: flag takes value
set_flag(m, flag, value) == [m |-> [m EXCEPT !.regs[flag] = value], val |-> 0]

\* CPU.CLC
CLC(m, mode) == set_flag(m, "c", 0)

\* CPU.SEC
SEC(m, mode) == set_flag(m, "c", 1)

\* CPU.CLI
CLI(m, mode) == set_flag(m, "i", 0)

\* CPU.SEI
SEI(m, mode) == set_flag(m, "i", 1)

\* CPU.CLD
CLD(m, mode) == set_flag(m, "d", 0)

\* CPU.SED
SED(m, mode) == set_flag(m, "d", 1)

\* CPU.CLV
CLV(m, mode) == set_flag(m, "v", 0)

\* BRK that does not step over the padding byte
BRK_without_padding(m, mode) ==
  The({ The({ The({ The({ [m |-> [v.m EXCEPT !.regs.pc = v.val], val |-> 0]
        : v \in {read_word(pushed, IrqVector)} })
        : pushed \in {push_byte(pushed_pc, get_status_byte(pushed_pc.regs, TRUE))} })
        : pushed_pc \in {push_word(masked, masked.regs.pc)} })
        : masked \in {[m EXCEPT !.regs.i = 1]} })

\* CPU.BRK
BRK(m, mode) ==
  The({ The({ The({ The({ [m |-> [v.m EXCEPT !.regs.pc = v.val], val |-> 0]
        : v \in {read_word(pushed, IrqVector)} })
        : pushed \in {push_byte(pushed_pc, get_status_byte(pushed_pc.regs, TRUE))} })
        : pushed_pc \in {push_word(padded, padded.regs.pc)} })
        : padded \in {[m EXCEPT !.regs.pc = (m.regs.pc + 1) % 65536, !.regs.i = 1]} })

\* CPU.NOP
NOP(m, mode) == [m |-> m, val |-> 0]

RECURSIVE read_each(_, _)
\* bus reads of the addresses in addrs, in order, their values discarded
\* (the list is halved to keep the evaluation shallow)
read_each(m, addrs) ==
  IF addrs = <<>> THEN m
  ELSE IF Len(addrs) = 1 THEN read(m, addrs[1]).m
  ELSE LET half == Len(addrs) \div 2
       IN The({ read_each(earlier, SubSeq(addrs, half + 1, Len(addrs)))
                : earlier \in {read_each(m, SubSeq(addrs, 1, half))} })

\* CPU.XXX: the handler of opcodes without a table entry; it reads the nine
\* bytes around the opcode and six stack bytes for its log and returns
XXX(m, mode) ==
  LET pc_addr == (m.regs.pc - 1) % 65536
      surrounding == [k \in 1..9 |-> (pc_addr + k - 5) % 65536]
      stack_samples == [k \in 1..6 |-> StackBase + ((m.regs.sp + k - 1) % 256)]
  IN [m |-> read_each(m, surrounding \o stack_samples), val |-> 0]

\* ------------------------------------------------------ CPU: decode, clock
\* CPU._build_lookup_table: opcode -> <<handler, addressing mode, base cycles>>;
\* an opcode without an entry keeps the default entry (XXX, IMP, 2)
lookup(op) ==
  CASE op = 169 -> <<"LDA", "IMM", 2>>   \* $A9
    [] op = 165 -> <<"LDA", "ZP0", 3>>   \* $A5
    [] op = 181 -> <<"LDA", "ZPX", 4>>   \* $B5
    [] op = 173 -> <<"LDA", "ABS", 4>>   \* $AD
    [] op = 189 -> <<"LDA", "ABX", 4>>   \* $BD
    [] op = 185 -> <<"LDA", "ABY", 4>>   \* $B9
    [] op = 161 -> <<"LDA", "IZX", 6>>   \* $A1
    [] op = 177 -> <<"LDA", "IZY", 5>>   \* $B1
    [] op = 162 -> <<"LDX", "IMM", 2>>   \* $A2
    [] op = 166 -> <<"LDX", "ZP0", 3>>   \* $A6
    [] op = 182 -> <<"LDX", "ZPY", 4>>   \* $B6
    [] op = 174 -> <<"LDX", "ABS", 4>>   \* $AE
    [] op = 190 -> <<"LDX", "ABY", 4>>   \* $BE
    [] op = 160 -> <<"LDY", "IMM", 2>>   \* $A0
    [] op = 164 -> <<"LDY", "ZP0", 3>>   \* $A4
    [] op = 180 -> <<"LDY", "ZPX", 4>>   \* $B4
    [] op = 172 -> <<"LDY", "ABS", 4>>   \* $AC
    [] op = 188 -> <<"LDY", "ABX", 4>>   \* $BC
    [] op = 133 -> <<"STA", "ZP0", 3>>   \* $85
    [] op = 149 -> <<"STA", "ZPX", 4>>   \* $95
    [] op = 141 -> <<"STA", "ABS", 4>>   \* $8D
    [] op = 157 -> <<"STA", "ABX", 5>>   \* $9D
    [] op = 153 -> <<"STA", "ABY", 5>>   \* $99
    [] op = 129 -> <<"STA", "IZX", 6>>   \* $81
    [] op = 145 -> <<"STA", "IZY", 6>>   \* $91
    [] op = 134 -> <<"STX", "ZP0", 3>>   \* $86
    [] op = 150 -> <<"STX", "ZPY", 4>>   \* $96
    [] op = 142 -> <<"STX", "ABS", 4>>   \* $8E
    [] op = 132 -> <<"STY", "ZP0", 3>>   \* $84
    [] op = 148 -> <<"STY", "ZPX", 4>>   \* $94
    [] op = 140 -> <<"STY", "ABS", 4>>   \* $8C
    [] op = 105 -> <<"ADC", "IMM", 2>>   \* $69
    [] op = 101 -> <<"ADC", "ZP0", 3>>   \* $65
    [] op = 117 -> <<"ADC", "ZPX", 4>>   \* $75
    [] op = 109 -> <<"ADC", "ABS", 4>>   \* $6D
    [] op = 125 -> <<"ADC", "ABX", 4>>   \* $7D
    [] op = 121 -> <<"ADC", "ABY", 4>>   \* $79
    [] op = 97 -> <<"ADC", "IZX", 6>>   \* $61
    [] op = 113 -> <<"ADC", "IZY", 5>>   \* $71
    [] op = 233 -> <<"SBC", "IMM", 2>>   \* $E9
    [] op = 229 -> <<"SBC", "ZP0", 3>>   \* $E5
    [] op = 245 -> <<"SBC", "ZPX", 4>>   \* $F5
    [] op = 237 -> <<"SBC", "ABS", 4>>   \* $ED
    [] op = 253 -> <<"SBC", "ABX", 4>>   \* $FD
    [] op = 249 -> <<"SBC", "ABY", 4>>   \* $F9
    [] op = 225 -> <<"SBC", "IZX", 6>>   \* $E1
    [] op = 241 -> <<"SBC", "IZY", 5>>   \* $F1
    [] op = 41 -> <<"AND", "IMM", 2>>   \* $29
    [] op = 37 -> <<"AND", "ZP0", 3>>   \* $25
    [] op = 53 -> <<"AND", "ZPX", 4>>   \* $35
    [] op = 45 -> <<"AND", "ABS", 4>>   \* $2D
    [] op = 61 -> <<"AND", "ABX", 4>>   \* $3D
    [] op = 57 -> <<"AND", "ABY", 4>>   \* $39
    [] op = 33 -> <<"AND", "IZX", 6>>   \* $21
    [] op = 49 -> <<"AND", "IZY", 5>>   \* $31
    [] op = 9 -> <<"ORA", "IMM", 2>>   \* $09
    [] op = 5 -> <<"ORA", "ZP0", 3>>   \* $05
    [] op = 21 -> <<"ORA", "ZPX", 4>>   \* $15
    [] op = 13 -> <<"ORA", "ABS", 4>>   \* $0D
    [] op = 29 -> <<"ORA", "ABX", 4>>   \* $1D
    [] op = 25 -> <<"ORA", "ABY", 4>>   \* $19
    [] op = 1 -> <<"ORA", "IZX", 6>>   \* $01
    [] op = 17 -> <<"ORA", "IZY", 5>>   \* $11
    [] op = 73 -> <<"EOR", "IMM", 2>>   \* $49
    [] op = 69 -> <<"EOR", "ZP0", 3>>   \* $45
    [] op = 85 -> <<"EOR", "ZPX", 4>>   \* $55
    [] op = 77 -> <<"EOR", "ABS", 4>>   \* $4D
    [] op = 93 -> <<"EOR", "ABX", 4>>   \* $5D
    [] op = 89 -> <<"EOR", "ABY", 4>>   \* $59
    [] op = 65 -> <<"EOR", "IZX", 6>>   \* $41
    [] op = 81 -> <<"EOR", "IZY", 5>>   \* $51
    [] op = 10 -> <<"ASL", "ACC", 2>>   \* $0A
    [] op = 6 -> <<"ASL", "ZP0", 5>>   \* $06
    [] op = 22 -> <<"ASL", "ZPX", 6>>   \* $16
    [] op = 14 -> <<"ASL", "ABS", 6>>   \* $0E
    [] op = 30 -> <<"ASL", "ABX", 7>>   \* $1E
    [] op = 74 -> <<"LSR", "ACC", 2>>   \* $4A
    [] op = 70 -> <<"LSR", "ZP0", 5>>   \* $46
    [] op = 86 -> <<"LSR", "ZPX", 6>>   \* $56
    [] op = 78 -> <<"LSR", "ABS", 6>>   \* $4E
    [] op = 94 -> <<"LSR", "ABX", 7>>   \* $5E
    [] op = 42 -> <<"ROL", "ACC", 2>>   \* $2A
    [] op = 38 -> <<"ROL", "ZP0", 5>>   \* $26
    [] op = 54 -> <<"ROL", "ZPX", 6>>   \* $36
    [] op = 46 -> <<"ROL", "ABS", 6>>   \* $2E
    [] op = 62 -> <<"ROL", "ABX", 7>>   \* $3E
    [] op = 106 -> <<"ROR", "ACC", 2>>   \* $6A
    [] op = 102 -> <<"ROR", "ZP0", 5>>   \* $66
    [] op = 118 -> <<"ROR", "ZPX", 6>>   \* $76
    [] op = 110 -> <<"ROR", "ABS", 6>>   \* $6E
    [] op = 126 -> <<"ROR", "ABX", 7>>   \* $7E
    [] op = 230 -> <<"INC", "ZP0", 5>>   \* $E6
    [] op = 246 -> <<"INC", "ZPX", 6>>   \* $F6
    [] op = 238 -> <<"INC", "ABS", 6>>   \* $EE
    [] op = 254 -> <<"INC", "ABX", 7>>   \* $FE
    [] op = 198 -> <<"DEC", "ZP0", 5>>   \* $C6
    [] op = 214 -> <<"DEC", "ZPX", 6>>   \* $D6
    [] op = 206 -> <<"DEC", "ABS", 6>>   \* $CE
    [] op = 222 -> <<"DEC", "ABX", 7>>   \* $DE
    [] op = 232 -> <<"INX", "IMP", 2>>   \* $E8
    [] op = 200 -> <<"INY", "IMP", 2>>   \* $C8
    [] op = 202 -> <<"DEX", "IMP", 2>>   \* $CA
    [] op = 136 -> <<"DEY", "IMP", 2>>   \* $88
    [] op = 72 -> <<"PHA", "IMP", 3>>   \* $48
    [] op = 104 -> <<"PLA", "IMP", 4>>   \* $68
    [] op = 8 -> <<"PHP", "IMP", 3>>   \* $08
    [] op = 40 -> <<"PLP", "IMP", 4>>   \* $28
    [] op = 76 -> <<"JMP", "ABS", 3>>   \* $4C
    [] op = 108 -> <<"JMP", "IND", 5>>   \* $6C
    [] op = 32 -> <<"JSR", "ABS", 6>>   \* $20
    [] op = 96 -> <<"RTS", "IMP", 6>>   \* $60
    [] op = 64 -> <<"RTI", "IMP", 6>>   \* $40
    [] op = 144 -> <<"BCC", "REL", 2>>   \* $90
    [] op = 176 -> <<"BCS", "REL", 2>>   \* $B0
    [] op = 240 -> <<"BEQ", "REL", 2>>   \* $F0
    [] op = 48 -> <<"BMI", "REL", 2>>   \* $30
    [] op = 208 -> <<"BNE", "REL", 2>>   \* $D0
    [] op = 16 -> <<"BPL", "REL", 2>>   \* $10
    [] op = 80 -> <<"BVC", "REL", 2>>   \* $50
    [] op = 112 -> <<"BVS", "REL", 2>>   \* $70
    [] op = 201 -> <<"CMP", "IMM", 2>>   \* $C9
    [] op = 197 -> <<"CMP", "ZP0", 3>>   \* $C5
    [] op = 213 -> <<"CMP", "ZPX", 4>>   \* $D5
    [] op = 205 -> <<"CMP", "ABS", 4>>   \* $CD
    [] op = 221 -> <<"CMP", "ABX", 4>>   \* $DD
    [] op = 217 -> <<"CMP", "ABY", 4>>   \* $D9
    [] op = 193 -> <<"CMP", "IZX", 6>>   \* $C1
    [] op = 209 -> <<"CMP", "IZY", 5>>   \* $D1
    [] op = 224 -> <<"CPX", "IMM", 2>>   \* $E0
    [] op = 228 -> <<"CPX", "ZP0", 3>>   \* $E4
    [] op = 236 -> <<"CPX", "ABS", 4>>   \* $EC
    [] op = 192 -> <<"CPY", "IMM", 2>>   \* $C0
    [] op = 196 -> <<"CPY", "ZP0", 3>>   \* $C4
    [] op = 204 -> <<"CPY", "ABS", 4>>   \* $CC
    [] op = 36 -> <<"BIT", "ZP0", 3>>   \* $24
    [] op = 44 -> <<"BIT", "ABS", 4>>   \* $2C
    [] op = 170 -> <<"TAX", "IMP", 2>>   \* $AA
    [] op = 138 -> <<"TXA", "IMP", 2>>   \* $8A
    [] op = 168 -> <<"TAY", "IMP", 2>>   \* $A8
    [] op = 152 -> <<"TYA", "IMP", 2>>   \* $98
    [] op = 186 -> <<"TSX", "IMP", 2>>   \* $BA
    [] op = 154 -> <<"TXS", "IMP", 2>>   \* $9A
    [] op = 24 -> <<"CLC", "IMP", 2>>   \* $18
    [] op = 56 -> <<"SEC", "IMP", 2>>   \* $38
    [] op = 88 -> <<"CLI", "IMP", 2>>   \* $58
    [] op = 120 -> <<"SEI", "IMP", 2>>   \* $78
    [] op = 216 -> <<"CLD", "IMP", 2>>   \* $D8
    [] op = 248 -> <<"SED", "IMP", 2>>   \* $F8
    [] op = 184 -> <<"CLV", "IMP", 2>>   \* $B8
    [] op = 0 -> <<"BRK", "IMP", 7>>   \* $00
    [] op = 234 -> <<"NOP", "IMP", 2>>   \* $EA
    [] OTHER -> <<"XXX", "IMP", 2>>

\* the call instr_func(addr_mode_func) for the handler named in the table
instr_func(name, m, mode) ==
  CASE name = "ADC" -> ADC(m, mode)
    [] name = "AND" -> AND(m, mode)
    [] name = "ASL" -> ASL(m, mode)
    [] name = "BCC" -> BCC(m, mode)
    [] name = "BCS" -> BCS(m, mode)
    [] name = "BEQ" -> BEQ(m, mode)
    [] name = "BIT" -> BIT(m, mode)
    [] name = "BMI" -> BMI(m, mode)
    [] name = "BNE" -> BNE(m, mode)
    [] name = "BPL" -> BPL(m, mode)
    [] name = "BRK" -> BRK(m, mode)
    [] name = "BVC" -> BVC(m, mode)
    [] name = "BVS" -> BVS(m, mode)
    [] name = "CLC" -> CLC(m, mode)
    [] name = "CLD" -> CLD(m, mode)
    [] name = "CLI" -> CLI(m, mode)
    [] name = "CLV" -> CLV(m, mode)
    [] name = "CMP" -> CMP(m, mode)
    [] name = "CPX" -> CPX(m, mode)
    [] name = "CPY" -> CPY(m, mode)
    [] name = "DEC" -> DEC(m, mode)
    [] name = "DEX" -> DEX(m, mode)
    [] name = "DEY" -> DEY(m, mode)
    [] name = "EOR" -> EOR(m, mode)
    [] name = "INC" -> INC(m, mode)
    [] name = "INX" -> INX(m, mode)
    [] name = "INY" -> INY(m, mode)
    [] name = "JMP" -> JMP(m, mode)
    [] name = "JSR" -> JSR(m, mode)
    [] name = "LDA" -> LDA(m, mode)
    [] name = "LDX" -> LDX(m, mode)
    [] name = "LDY" -> LDY(m, mode)
    [] name = "LSR" -> LSR(m, mode)
    [] name = "NOP" -> NOP(m, mode)
    [] name = "ORA" -> ORA(m, mode)
    [] name = "PHA" -> PHA(m, mode)
    [] name = "PHP" -> PHP(m, mode)
    [] name = "PLA" -> PLA(m, mode)
    [] name = "PLP" -> PLP(m, mode)
    [] name = "ROL" -> ROL(m, mode)
    [] name = "ROR" -> ROR(m, mode)
    [] name = "RTI" -> RTI(m, mode)
    [] name = "RTS" -> RTS(m, mode)
    [] name = "SBC" -> SBC(m, mode)
    [] name = "SEC" -> SEC(m, mode)
    [] name = "SED" -> SED(m, mode)
    [] name = "SEI" -> SEI(m, mode)
    [] name = "STA" -> STA(m, mode)
    [] name = "STX" -> STX(m, mode)
    [] name = "STY" -> STY(m, mode)
    [] name = "TAX" -> TAX(m, mode)
    [] name = "TAY" -> TAY(m, mode)
    [] name = "TSX" -> TSX(m, mode)
    [] name = "TXA" -> TXA(m, mode)
    [] name = "TXS" -> TXS(m, mode)
    [] name = "TYA" -> TYA(m, mode)
    [] name = "XXX" -> XXX(m, mode)

\* CPU.clock up to the cycle accounting: fetch, decode, run the handler and
\* add the cycles; returns the machine and total_cycles of this instruction
execute(m) ==
  The({ The({ The({ The({ The({
        [m |-> [e.m EXCEPT !.cycles = total,
                           !.total_cycles = e.m.total_cycles + total],
         val |-> total]
        : total \in {entry[3] + e.val} })
        : e \in {instr_func(entry[1], s, entry[2])} })
        : s \in {[f.m EXCEPT !.opcode = f.val,
                             !.last_instr_pc = (f.m.regs.pc - 1) % 65536]} })
        : entry \in {lookup(f.val)} })
        : f \in {fetch_byte(m)} })

\* one PPU clock per CPU cycle
ppu_clocks_one_per_cycle(total) == total

\* the PPU clocks CPU.clock hands to ppu.step for an instruction of
\* total_cycles cycles
ppu_clocks_for(total) == total * 3

\* a clock that runs the next instruction whether or not the CPU is halted
clock_while_halted(m) ==
  The({ [m |-> step(e.m, ppu_clocks_for(e.val)), val |-> e.val]
        : e \in {execute(m)} })

\* CPU.clock: the machine after the call and the cycles it returns
clock(m) ==
  IF m.halted THEN [m |-> m, val |-> 0]
  ELSE The({ [m |-> step(e.m, ppu_clocks_for(e.val)), val |-> e.val]
             : e \in {execute(m)} })

\* ------------------------------------------------------- the preprocessor
\* a source line is the record of its words: first is the first word (""
\* for a blank line, ";" for a comment, the directive in lower case, else the
\* mnemonic or macro name) and rest the words after it

\* the depth of nested process_lines calls at which Python gives up
\* (sys.getrecursionlimit() stands far higher; the RecursionError is the same)
MaxDepth == 3

\* MacroProcessor.__init__; frames holds the locals of the process_lines
\* calls in progress (innermost last), line the line read last, raised the
\* exception that ended the run and result the list returned to the caller
NewMacroProcessor ==
  [macros |-> << >>, symbols |-> << >>, conditional_stack |-> << >>,
   current_macro |-> "None", macro_body |-> << >>, in_macro_definition |-> FALSE,
   frames |-> << >>, line |-> [first |-> "", rest |-> << >>],
   raised |-> "None", returned |-> FALSE, result |-> << >>]

\* MacroProcessor._is_active_conditional_block
is_active_conditional_block(pp) ==
  \A k \in 1..Len(pp.conditional_stack) : pp.conditional_stack[k].active

\* the files .include can name, as their lines
IncludeFiles ==
  [f \in {"inc.asm"} |-> <<[first |-> "CLC", rest |-> << >>]>>]

\* process_lines is entered with these lines (a recursive call of the macro
\* expansion or of process_file)
enter_process_lines(pp, lines) ==
  IF Len(pp.frames) >= MaxDepth THEN [pp EXCEPT !.raised = "RecursionError"]
  ELSE [pp EXCEPT !.frames = Append(@, [lines |-> lines, line_number |-> 0,
                                        processed_lines |-> << >>])]

\* an .else that flips the block however many .else it has had
else_directive_flipping_again(pp, line) ==
  LET stack == pp.conditional_stack
  IN IF pp.in_macro_definition THEN [pp EXCEPT !.macro_body = Append(@, line)]
     ELSE IF stack = << >> THEN [pp EXCEPT !.raised = "SyntaxError"]
     ELSE LET parent_active == IF Len(stack) > 1
                               THEN stack[Len(stack) - 1].active ELSE TRUE
          IN [pp EXCEPT !.conditional_stack[Len(stack)].active =
                           ~@ /\ parent_active,
                        !.conditional_stack[Len(stack)].has_else = TRUE]

\* MacroProcessor.process_lines, the branch of the .else directive
else_directive(pp, line) ==
  LET stack == pp.conditional_stack
  IN IF pp.in_macro_definition THEN [pp EXCEPT !.macro_body = Append(@, line)]
     ELSE IF stack = << >> THEN [pp EXCEPT !.raised = "SyntaxError"]
     ELSE IF stack[Len(stack)].has_else THEN [pp EXCEPT !.raised = "SyntaxError"]
     ELSE LET parent_active == IF Len(stack) > 1
                               THEN stack[Len(stack) - 1].active ELSE TRUE
          IN [pp EXCEPT !.conditional_stack[Len(stack)].active =
                           ~@ /\ parent_active,
                        !.conditional_stack[Len(stack)].has_else = TRUE]

\* MacroProcessor.process_lines, one turn of its loop: the line is taken
\* (line_number += 1) and handled
process_line(pp0, line) ==
  LET top == Len(pp0.frames)
      pp == [pp0 EXCEPT !.frames[top].line_number = @ + 1, !.line = line]
      directive == line.first
      rest == line.rest
      stack == pp.conditional_stack
      active == is_active_conditional_block(pp)
      emitted == [pp EXCEPT !.frames[top].processed_lines = Append(@, line)]
      kept == [pp EXCEPT !.macro_body = Append(@, line)]
      error == [pp EXCEPT !.raised = "SyntaxError"]
      normal == IF pp.in_macro_definition THEN kept
                ELSE IF active THEN emitted ELSE pp
  IN CASE directive \in {"", ";"} ->
            IF ~pp.in_macro_definition THEN emitted ELSE kept
       [] directive = ".macro" ->
            IF pp.in_macro_definition \/ Len(rest) < 1 THEN error
            ELSE [pp EXCEPT !.in_macro_definition = TRUE,
                            !.current_macro = [name |-> rest[1], params |-> Tail(rest)],
                            !.macro_body = << >>]
       [] directive = ".endmacro" ->
            IF ~pp.in_macro_definition THEN error
            ELSE [pp EXCEPT !.macros = (pp.current_macro.name :>
                                          [params |-> pp.current_macro.params,
                                           body |-> pp.macro_body]) @@ @,
                            !.in_macro_definition = FALSE,
                            !.current_macro = "None",
                            !.macro_body = << >>]
       [] directive = ".include" ->
            IF pp.in_macro_definition THEN kept
            ELSE IF ~active THEN pp
            ELSE IF Len(rest) < 1 THEN error
            ELSE IF rest[1] \notin DOMAIN IncludeFiles
            THEN [pp EXCEPT !.raised = "FileNotFoundError"]
            ELSE enter_process_lines(pp, IncludeFiles[rest[1]])
       [] directive \in {".if", ".ifdef", ".ifndef"} ->
            IF pp.in_macro_definition THEN kept
            ELSE IF Len(rest) < 1 THEN error
            ELSE LET parent_active == active
                     \* re.sub replaces a defined symbol by str(value)
                     condition == IF directive = ".if" /\ parent_active
                                     /\ rest[1] \in DOMAIN pp.symbols
                                  THEN pp.symbols[rest[1]] ELSE rest[1]
                     \* eval() of what is left: a number, or a name Python
                     \* does not know (NameError)
                     fails == directive = ".if" /\ parent_active
                                /\ condition \notin {"0", "1"}
                     holds == IF ~parent_active THEN FALSE
                              ELSE CASE directive = ".if" -> condition # "0"
                                     [] directive = ".ifdef" -> condition \in DOMAIN pp.symbols
                                     [] OTHER -> condition \notin DOMAIN pp.symbols
                 IN IF fails THEN error
                    ELSE [pp EXCEPT !.conditional_stack =
                            Append(@, [condition_type |-> directive,
                                       condition |-> condition,
                                       active |-> holds /\ parent_active,
                                       has_else |-> FALSE])]
       [] directive = ".else" -> else_directive(pp, line)
       [] directive = ".endif" ->
            IF pp.in_macro_definition THEN kept
            ELSE IF stack = << >> THEN error
            ELSE [pp EXCEPT !.conditional_stack = SubSeq(@, 1, Len(@) - 1)]
       [] directive \in {".equ", ".define"} ->
            IF pp.in_macro_definition THEN kept
            ELSE IF ~active THEN pp
            ELSE IF Len(rest) < 2 THEN error
            ELSE [emitted EXCEPT !.symbols = (rest[1] :> rest[2]) @@ @]
       [] directive \in {".byte", ".org"} -> normal
       [] OTHER ->
            IF ~pp.in_macro_definition /\ active /\ directive \in DOMAIN pp.macros
            THEN \* MacroDefinition.expand, then the recursive call
                 IF Len(rest) # Len(pp.macros[directive].params)
                 THEN [pp EXCEPT !.raised = "ValueError"]
                 ELSE enter_process_lines(pp, pp.macros[directive].body)
            ELSE normal

\* MacroProcessor.process_lines after its loop: the two tests, then the
\* return; the caller extends its processed_lines with the list returned
leave_process_lines(pp) ==
  LET top == Len(pp.frames)
      out == pp.frames[top].processed_lines
  IN IF pp.conditional_stack # << >> \/ pp.in_macro_definition
     THEN [pp EXCEPT !.raised = "SyntaxError"]
     ELSE IF top = 1
     THEN [pp EXCEPT !.frames = << >>, !.returned = TRUE, !.result = out]
     ELSE [pp EXCEPT !.frames = SubSeq(@, 1, top - 2)
                        \o <<[pp.frames[top - 1] EXCEPT !.processed_lines = @ \o out]>>]

\* ---------------------------------------------------------- the assembler
\* a source line is the record of its tokens: label ("" when it has none),
\* word (the mnemonic or the directive in upper case) and operand (the text
\* of the operand, "" for none)

\* Assembler.__init__ and the Parser that assemble() creates; parsed counts
\* the source lines Parser.parse has consumed, generated the statements the
\* second loop of _generate_code has handled; gen_address and gen_origin_set
\* are the locals current_address and origin_set of _generate_code
NewAssembler ==
  [source |-> << >>, parsed |-> 0, statements |-> << >>, symbols |-> << >>,
   current_address |-> 0, origin_set |-> FALSE,
   generated |-> 0, binary |-> << >>, gen_address |-> 0, gen_origin_set |-> FALSE,
   raised |-> "None"]

\* opcodes_table.OPCODE_TABLE, the entries of the mnemonics assembled here:
\* for each addressing mode of the mnemonic, the opcode and the size
OPCODE_TABLE ==
  [mnemonic \in {"NOP", "BNE", "BEQ", "LDA", "LDX"} |->
     CASE mnemonic = "NOP" -> ("IMPLICIT" :> [opcode |-> 234, size |-> 1])
       [] mnemonic = "BNE" -> ("RELATIVE" :> [opcode |-> 208, size |-> 2])
       [] mnemonic = "BEQ" -> ("RELATIVE" :> [opcode |-> 240, size |-> 2])
       [] mnemonic = "LDA" ->
            ("IMMEDIATE" :> [opcode |-> 169, size |-> 2])
            @@ ("ABSOLUTE" :> [opcode |-> 173, size |-> 3])
            @@ ("ABSOLUTE_X" :> [opcode |-> 189, size |-> 3])
            @@ ("ABSOLUTE_Y" :> [opcode |-> 185, size |-> 3])
            @@ ("ZEROPAGE" :> [opcode |-> 165, size |-> 2])
            @@ ("ZEROPAGE_X" :> [opcode |-> 181, size |-> 2])
            @@ ("INDIRECT_X" :> [opcode |-> 161, size |-> 2])
            @@ ("INDIRECT_Y" :> [opcode |-> 177, size |-> 2])
       [] mnemonic = "LDX" ->
            ("IMMEDIATE" :> [opcode |-> 162, size |-> 2])
            @@ ("ABSOLUTE" :> [opcode |-> 174, size |-> 3])
            @@ ("ABSOLUTE_Y" :> [opcode |-> 190, size |-> 3])
            @@ ("ZEROPAGE" :> [opcode |-> 166, size |-> 2])
            @@ ("ZEROPAGE_Y" :> [opcode |-> 182, size |-> 2])]

\* the operand texts the sources use
OperandTexts ==
  { "", "L", "$0004", "$0100", "$10", "$FF",
    "$0010", "10", "255", "256", "300", "$10,X",
    "$0010,X", "$0100,X", "10,X", "255,X", "256,X", "$10,Y",
    "$0010,Y", "$0100,Y", "10,Y", "300,Y" }

\* the characters of an operand text, in order (str indexing)
characters(text) ==
  CASE text = "" -> << >>
    [] text = "L" -> <<"L">>
    [] text = "$0004" -> <<"$", "0", "0", "0", "4">>
    [] text = "$0100" -> <<"$", "0", "1", "0", "0">>
    [] text = "$10" -> <<"$", "1", "0">>
    [] text = "$FF" -> <<"$", "F", "F">>
    [] text = "$0010" -> <<"$", "0", "0", "1", "0">>
    [] text = "10" -> <<"1", "0">>
    [] text = "255" -> <<"2", "5", "5">>
    [] text = "256" -> <<"2", "5", "6">>
    [] text = "300" -> <<"3", "0", "0">>
    [] text = "$10,X" -> <<"$", "1", "0", ",", "X">>
    [] text = "$0010,X" -> <<"$", "0", "0", "1", "0", ",", "X">>
    [] text = "$0100,X" -> <<"$", "0", "1", "0", "0", ",", "X">>
    [] text = "10,X" -> <<"1", "0", ",", "X">>
    [] text = "255,X" -> <<"2", "5", "5", ",", "X">>
    [] text = "256,X" -> <<"2", "5", "6", ",", "X">>
    [] text = "$10,Y" -> <<"$", "1", "0", ",", "Y">>
    [] text = "$0010,Y" -> <<"$", "0", "0", "1", "0", ",", "Y">>
    [] text = "$0100,Y" -> <<"$", "0", "1", "0", "0", ",", "Y">>
    [] text = "10,Y" -> <<"1", "0", ",", "Y">>
    [] text = "300,Y" -> <<"3", "0", "0", ",", "Y">>

\* the text made of the characters chars (a slice or a split of a str)
text_of(chars) == CHOOSE text \in OperandTexts : characters(text) = chars

\* the value of a digit character, 99 for a character that is no digit
digit_value(c) ==
  CASE c = "0" -> 0 [] c = "1" -> 1 [] c = "2" -> 2 [] c = "3" -> 3
    [] c = "4" -> 4 [] c = "5" -> 5 [] c = "6" -> 6 [] c = "7" -> 7
    [] c = "8" -> 8 [] c = "9" -> 9 [] c = "A" -> 10 [] c = "B" -> 11
    [] c = "C" -> 12 [] c = "D" -> 13 [] c = "E" -> 14 [] c = "F" -> 15
    [] OTHER -> 99

\* Python's int(text, base) on the characters of the text; -1 stands for
\* its ValueError
int(chars, base) ==
  LET value[k \in 0..Len(chars)] ==
        IF k = 0 THEN 0 ELSE value[k - 1] * base + digit_value(chars[k])
  IN IF chars = << >> \/ \E k \in 1..Len(chars) : digit_value(chars[k]) >= base
     THEN -1 ELSE value[Len(chars)]

\* the part of an operand before its first comma: operand.split(',')[0]
before_comma(chars) ==
  LET commas == {k \in 1..Len(chars) : chars[k] = ","}
  IN IF commas = {} THEN chars
     ELSE SubSeq(chars, 1, (CHOOSE k \in commas : \A j \in commas : k <= j) - 1)

\* Parser._parse_number and Assembler._parse_number: the value of a symbol,
\* else of the numeral; -1 stands for the ValueError of int()
parse_number(as, value) ==
  IF value \in DOMAIN as.symbols THEN as.symbols[value]
  ELSE LET chars == characters(value)
       IN IF chars # << >> /\ chars[1] = "$" THEN int(Tail(chars), 16)
          ELSE IF chars # << >> /\ chars[1] = "%" THEN int(Tail(chars), 2)
          ELSE int(chars, 10)

\* AddressingModeDetector.detect_addressing_mode (the sources have no
\* operand in parentheses, so the three indirect forms are left out)
detect_addressing_mode(operand) ==
  LET chars == characters(operand)
      value == before_comma(chars)
      indexed(register) ==
        \E k \in 1..(Len(chars) - 1) : chars[k] = "," /\ chars[k + 1] = register
      by_value(zeropage, absolute) ==
        IF value # << >> /\ value[1] = "$"
        THEN IF Len(value) <= 3 THEN zeropage ELSE absolute
        ELSE IF int(value, 10) = -1 THEN absolute
        ELSE IF int(value, 10) < 256 THEN zeropage ELSE absolute
  IN IF chars = << >> THEN "IMPLICIT"
     ELSE IF chars = <<"A">> THEN "ACCUMULATOR"
     ELSE IF chars[1] = "#" THEN "IMMEDIATE"
     ELSE IF indexed("X") THEN by_value("ZEROPAGE_X", "ABSOLUTE_X")
     ELSE IF indexed("Y") THEN by_value("ZEROPAGE_Y", "ABSOLUTE_Y")
     ELSE IF chars[1] = "$"
     THEN IF Len(chars) <= 3 THEN "ZEROPAGE" ELSE "ABSOLUTE"
     ELSE "ABSOLUTE"

\* Parser._determine_addressing_mode
determine_addressing_mode(mnemonic, operand) ==
  IF mnemonic \in {"BCC", "BCS", "BEQ", "BNE", "BMI", "BPL", "BVC", "BVS"}
  THEN "RELATIVE"
  ELSE detect_addressing_mode(operand)

\* Parser._parse_line with _parse_instruction, _parse_directive and
\* _process_directive
parse_line(as0, line) ==
  LET as == [as0 EXCEPT !.parsed = @ + 1,
                        !.symbols = IF line.label # ""
                                    THEN (line.label :> as0.current_address) @@ @
                                    ELSE @]
      number == as.parsed
  IN CASE line.word = ".ORG" ->
            IF parse_number(as, line.operand) = -1
            THEN [as EXCEPT !.raised = "AssemblerError"]
            ELSE
            [as EXCEPT !.current_address = parse_number(as, line.operand),
                       !.origin_set = TRUE,
                       !.statements = Append(@, [directive |-> ".ORG",
                                                 operands |-> <<line.operand>>,
                                                 size |-> 0, line |-> number,
                                                 label |-> line.label])]
       [] line.word \in DOMAIN OPCODE_TABLE ->
            LET addressing_mode ==
                  IF line.operand # ""
                  THEN determine_addressing_mode(line.word, line.operand)
                  ELSE "IMPLICIT"
                instr_info == OPCODE_TABLE[line.word][addressing_mode]
            IN IF addressing_mode \notin DOMAIN OPCODE_TABLE[line.word]
               THEN [as EXCEPT !.raised = "AssemblerError"]
               ELSE [as EXCEPT !.statements =
                                  Append(@, [mnemonic |-> line.word,
                                             operand |-> line.operand,
                                             addressing_mode |-> addressing_mode,
                                             opcode |-> instr_info.opcode,
                                             size |-> instr_info.size,
                                             line |-> number,
                                             label |-> line.label]),
                               !.current_address = @ + instr_info.size]
       [] OTHER -> [as EXCEPT !.raised = "AssemblerError"]

\* the sum of the sizes of the statements before the first branch whose
\* operand is `operand`: the loop of _resolve_operand that looks for "the
\* current instruction"
branch_address(statements, operand) ==
  LET found == {k \in 1..Len(statements) :
                  /\ "mnemonic" \in DOMAIN statements[k]
                  /\ statements[k].mnemonic \in {"BNE", "BEQ"}
                  /\ statements[k].operand = operand}
      stop == IF found = {} THEN Len(statements) + 1
              ELSE CHOOSE k \in found : \A j \in found : k <= j
      sum[k \in 0..Len(statements)] ==
        IF k = 0 THEN 0 ELSE sum[k - 1] + statements[k].size
  IN sum[stop - 1]

\* Assembler._resolve_operand: the value of the operand, for the relative
\* mode the byte to emit; -1 when the operand is neither a symbol nor a
\* number (AssemblerError)
resolve_operand(as, operand, addressing_mode) ==
  CASE addressing_mode = "IMMEDIATE" ->
         parse_number(as, text_of(Tail(characters(operand))))
    [] addressing_mode = "RELATIVE" ->
         IF parse_number(as, operand) = -1 THEN -1
         ELSE LET target_address == parse_number(as, operand)
                  offset == target_address
                              - (branch_address(as.statements, operand) + 2)
                  clamped == IF offset < -128 THEN -128
                             ELSE IF offset > 127 THEN 127 ELSE offset
              IN IF clamped < 0 THEN 256 + clamped ELSE clamped
    [] addressing_mode \in {"ABSOLUTE_X", "ABSOLUTE_Y", "ZEROPAGE_X", "ZEROPAGE_Y"} ->
         parse_number(as, text_of(before_comma(characters(operand))))
    [] OTHER -> parse_number(as, operand)

\* Assembler._generate_code, one turn of its second loop, on the statement
\* stmt (its first loop only adds up sizes that nothing reads)
generate_statement(as0, stmt) ==
  LET as == [as0 EXCEPT !.generated = @ + 1]
  IN IF "directive" \in DOMAIN stmt
     THEN LET address == parse_number(as, stmt.operands[1])
              gap == IF as.gen_origin_set /\ address > as.gen_address
                     THEN address - as.gen_address ELSE 0
          IN [as EXCEPT !.binary = @ \o [k \in 1..gap |-> 0],
                        !.gen_address = address,
                        !.gen_origin_set = TRUE]
     ELSE IF stmt.size = 1
     THEN [as EXCEPT !.binary = Append(@, stmt.opcode),
                     !.gen_address = @ + 1]
     ELSE LET operand_value ==
                resolve_operand(as, stmt.operand, stmt.addressing_mode)
          IN IF operand_value = -1 THEN [as EXCEPT !.raised = "AssemblerError"]
             ELSE IF stmt.size = 2
             THEN [as EXCEPT !.binary = @ \o <<stmt.opcode, operand_value % 256>>,
                             !.gen_address = @ + 2]
             ELSE [as EXCEPT !.binary = @ \o <<stmt.opcode, operand_value % 256,
                                               (operand_value \div 256) % 256>>,
                             !.gen_address = @ + 3]

\* ------------------------------------------------------------- the system
\* where the harness loads programs, the subroutine and the handlers
\* (tools/trace_nes.py loads at $8000 and points the reset vector there)
LoadAddr == 32768
SubAddr == 768
NmiHandler == LoadAddr + 4096
IrqHandler == LoadAddr + 8192

\* bytes written with bus.write from address at on: the non-zero ones stay
BytesAt(at, bytes) ==
  [k \in {at + j - 1 : j \in {j \in 1..Len(bytes) : bytes[j] # 0}} |-> bytes[k - at + 1]]

\* little-endian word at address at
WordAt(at, w) == BytesAt(at, <<w % 256, w \div 256>>)

\* the programs explored, as the bytes at LoadAddr; memory after a program
\* is zero, which decodes as BRK
Programs ==
  { <<169, 192, 170, 232, 0>>,      \* LDA #$C0; TAX; INX; BRK
    <<32, 0, 3, 234>>,              \* JSR $0300; NOP
    <<0, 0, 234>>,                  \* BRK; (padding); NOP
    <<2, 234>>,                     \* opcode $02 has no table entry
    <<255, 234>>,                   \* opcode $FF has no table entry
    <<8, 24, 248, 40>>,             \* PHP; CLC; SED; PLP
    <<64>>,                         \* RTI
    <<96>>,                         \* RTS
    <<141, 0, 32, 173, 2, 32>>,     \* STA $2000; LDA $2002
    <<88, 234, 234>>,               \* CLI; NOP; NOP
    <<154, 72, 104>>,               \* TXS; PHA; PLA
    <<202, 136, 186>>,              \* DEX; DEY; TSX
    <<105, 127, 233, 1>>,           \* ADC #$7F; SBC #$01
    <<208, 254>>,                   \* BNE -2
    <<16, 127>>,                    \* BPL +127
    <<108, 255, 16>>,               \* JMP ($10FF)
    <<141, 20, 64>>,                \* STA $4014
    <<10, 106, 230, 16>>,           \* ASL A; ROR A; INC $10
    <<198, 16, 49, 16>>,            \* DEC $10; AND ($10),Y
    <<76, 0, 128>>,                 \* JMP $8000
    <<234, 234, 234>>,              \* NOP; NOP; NOP
    <<8, 56, 88, 184, 169, 0, 40>>, \* PHP; SEC; CLI; CLV; LDA #$00; PLP
    <<8, 72, 104, 40>>,             \* PHP; PHA; PLA; PLP
    <<233, 1, 233, 128>>,           \* SBC #$01; SBC #$80
    <<56, 233, 1>>,                 \* SEC; SBC #$01
    <<144, 253>>,                   \* BCC -3
    <<176, 16>>,                    \* BCS +16
    <<240, 128>>,                   \* BEQ -128
    <<48, 0>>,                      \* BMI +0
    <<80, 127>>,                    \* BVC +127
    <<112, 255>>,                   \* BVS -1
    <<108, 0, 16>>,                 \* JMP ($1000)
    <<72, 142, 3, 32, 141, 20, 64, 234>> } \* PHA; STX $2003; STA $4014; NOP

\* the memory image around a program: the three vectors, an RTI in each
\* handler, an RTS in the subroutine and a pointer for the indirect jump
Image(program) ==
  BytesAt(LoadAddr, program) @@ BytesAt(SubAddr, <<96>>)
    @@ BytesAt(NmiHandler, <<64>>) @@ BytesAt(IrqHandler, <<64>>)
    @@ WordAt(NmiVector, NmiHandler) @@ WordAt(ResetVector, LoadAddr)
    @@ WordAt(IrqVector, IrqHandler) @@ BytesAt(4351, <<205>>) @@ BytesAt(4096, <<171, 18>>)

\* register values the harness sets after reset() and before running, as
\* test_Cpu.py does (cpu.regs.sp = ..., cpu.regs.n = 1, ...)
Presets ==
  { NewRegisters,
    [NewRegisters EXCEPT !.sp = 1, !.i = 0, !.n = 1, !.c = 1, !.a = 128, !.x = 255, !.y = 1],
    [NewRegisters EXCEPT !.sp = 0, !.i = 0, !.v = 1, !.z = 1, !.d = 1, !.a = 127, !.y = 255],
    [NewRegisters EXCEPT !.sp = 2, !.c = 1, !.a = 16, !.x = 2] }

\* positions of the PPU when the program starts: a new PPU, and PPUs that an
\* earlier run left shortly before the end of scanline 240
PpuStarts ==
  { [scanline |-> 0, ppu_cycle |-> 0, ctrl |-> 0],
    [scanline |-> 240, ppu_cycle |-> 330, ctrl |-> 128],
    [scanline |-> 240, ppu_cycle |-> 336, ctrl |-> 128],
    [scanline |-> 240, ppu_cycle |-> 336, ctrl |-> 0] }

\* emulador_gui.reset_cpu / tools/trace_nes.py: Bus(), CPU(bus), FullPPU()
\* attached as bus.ppu with nmi_callback wired to cpu.nmi(), the PPU register
\* window mapped, the program loaded and cpu.reset() called; cpu.halted is a
\* public attribute that the harness may have set before handing the CPU on
Init ==
  \E program \in Programs, preset \in Presets, start \in PpuStarts :
    /\ regs = [preset EXCEPT !.pc = LoadAddr]
    /\ initial = [preset EXCEPT !.pc = LoadAddr]
    /\ ram = Image(program)
    /\ mapped_regions = <<OamDmaRegion, PpuRegion>>
    /\ ppu = [NewPPU EXCEPT !.nmi_callback = "cpu.nmi",
                            !.scanline = start.scanline,
                            !.ppu_cycle = start.ppu_cycle,
                            !.regs[PPUCTRL] = start.ctrl]
    /\ halted \in BOOLEAN
    /\ cycles = 0
    /\ total_cycles = 0
    /\ opcode = 0
    /\ addr_rel = 0
    /\ last_instr_pc = 0
    /\ nmi_count = 0
    /\ called = "setup"
    /\ ret = ResetCycles
    /\ driver_calls = 0
    /\ mapper = [kind |-> "None"]
    /\ hw = NewHardware
    /\ bus_call = [address |-> 0, value |-> 0, handler |-> "None"]
    /\ pre = NewMacroProcessor
    /\ asm = NewAssembler
    /\ stepped = 0

\* the driver calls cpu.clock()
Clock ==
  /\ total_cycles < MaxCycles
  /\ \E r \in {clock(Machine)} : Becomes(r.m) /\ ret' = r.val
  /\ called' = "clock"
  /\ UNCHANGED <<driver_calls, initial, bus_call, pre, asm, stepped>>

\* the driver calls cpu.reset()
Reset ==
  /\ driver_calls < MaxDriverCalls
  /\ \E r \in {reset(Machine)} : Becomes(r.m) /\ ret' = r.val
  /\ called' = "reset"
  /\ driver_calls' = driver_calls + 1
  /\ UNCHANGED <<initial, bus_call, pre, asm, stepped>>

\* the driver calls cpu.irq()
Irq ==
  /\ driver_calls < MaxDriverCalls
  /\ \E r \in {irq(Machine)} : Becomes(r.m) /\ ret' = r.val
  /\ called' = "irq"
  /\ driver_calls' = driver_calls + 1
  /\ UNCHANGED <<initial, bus_call, pre, asm, stepped>>

\* the driver calls cpu.nmi()
Nmi ==
  /\ driver_calls < MaxDriverCalls
  /\ \E r \in {nmi(Machine)} : Becomes(r.m) /\ ret' = r.val
  /\ called' = "nmi"
  /\ driver_calls' = driver_calls + 1
  /\ UNCHANGED <<initial, bus_call, pre, asm, stepped>>

Next == Clock \/ Reset \/ Irq \/ Nmi

Spec == Init /\ [][Next]_vars

\* ------------------------------------------------ the PPU driven directly
\* the dots handed to FullPPU.step in one call: short of a scanline boundary
\* of VBlank by one dot, a few scanlines, a third of a frame, the scanlines
\* 0..260 of a whole frame
StepSizes == {VBlankScanline * DotsPerScanline - 1, 5003, 30011,
              (LastScanline + 1) * DotsPerScanline}

\* the values the driver writes to PPUCTRL: NMI disabled, NMI enabled
CtrlValues == {0, 128}

\* the system as constructed by emulador_gui.reset_cpu, the CPU idle
InitPPU ==
  /\ regs = [NewRegisters EXCEPT !.pc = LoadAddr]
  /\ initial = [NewRegisters EXCEPT !.pc = LoadAddr]
  /\ ram = Image(<<234>>)
  /\ mapped_regions = <<OamDmaRegion, PpuRegion>>
  /\ ppu = [NewPPU EXCEPT !.nmi_callback = "cpu.nmi"]
  /\ halted = FALSE
  /\ cycles = 0
  /\ total_cycles = 0
  /\ opcode = 0
  /\ addr_rel = 0
  /\ last_instr_pc = 0
  /\ nmi_count = 0
  /\ called = "setup"
  /\ ret = ResetCycles
  /\ driver_calls = 0
  /\ mapper = [kind |-> "None"]
  /\ hw = NewHardware
  /\ bus_call = [address |-> 0, value |-> 0, handler |-> "None"]
  /\ pre = NewMacroProcessor
  /\ asm = NewAssembler
  /\ stepped = 0

\* the driver calls ppu.step(n)
PPUStep ==
  /\ ppu.frame < MaxFrames
  /\ \E n \in StepSizes : Becomes(step(Machine, n)) /\ stepped' = stepped + n
  /\ called' = "step"
  /\ UNCHANGED <<ret, driver_calls, initial, bus_call, pre, asm>>

\* the driver reads $2002 through the bus
PPUReadStatus ==
  /\ \E r \in {read(Machine, PPUSTATUS)} : Becomes(r.m) /\ ret' = r.val
  /\ called' = "read"
  /\ UNCHANGED <<driver_calls, initial, bus_call, pre, asm, stepped>>

\* the driver writes PPUCTRL through the bus
PPUWriteCtrl ==
  /\ \E value \in CtrlValues : Becomes(write(Machine, PPUCTRL, value))
  /\ called' = "write"
  /\ UNCHANGED <<ret, driver_calls, initial, bus_call, pre, asm, stepped>>

NextPPU == PPUStep \/ PPUReadStatus \/ PPUWriteCtrl

SpecPPU == InitPPU /\ [][NextPPU]_vars

\* ------------------------------------------ the bus with a cartridge in it
\* offsets within a 16 KiB bank at which the PRG images hold a byte other
\* than zero: both ends of the bank, of its first page and of its first half
ProbeOffsets == {0, 1, 255, 256, 8191, 8192, 16383}

\* `prg = data[prg_start:prg_start+prg_size]` of a ROM file with prg_units
\* banks: every probed byte differs from those of the other banks and from
\* the other probed bytes of its own bank
PrgOf(prg_units) ==
  [len |-> prg_units * 16384,
   bytes |-> [o \in {bank * 16384 + k : bank \in 0..(prg_units - 1),
                                         k \in ProbeOffsets}
               |-> (o \div 16384) * 32 + ((o % 16384) % 29) + 1]]

\* the mappers installed: NROM with 16 and 32 KiB, UNROM with 2, 3, 4 banks
Mappers ==
  {NROMMapper(PrgOf(1)), NROMMapper(PrgOf(2)),
   UNROMMapper(PrgOf(2)), UNROMMapper(PrgOf(3)), UNROMMapper(PrgOf(4))}

\* addresses the driver passes to bus.read / bus.write: RAM, PPUSTATUS,
\* $4014, the second controller port, PRG-RAM, both PRG windows, and
\* integers outside 0..$FFFF
BusAddresses == {0, 8194, 16404, 16407, 24576, 32768, 49152, 65535, -1, 98304}

\* values the driver passes to bus.write, some outside 0..$FF
BusValues == {2, 7, 259, -254}

\* tools/trace_nes.py: Bus(), mapper.map(bus), SimpleHardware().map_to_bus(bus),
\* FullPPU() attached as bus.ppu and hw.ppu; the CPU is not run
InitBus ==
  \E mp \in Mappers :
    /\ regs = NewRegisters
    /\ initial = NewRegisters
    /\ ram = ZeroMem
    /\ mapper = mp
    /\ mapped_regions = <<OamDmaRegion>>
                          \o (IF mp.kind = "NROM" THEN NROMMapper_map(mp)
                              ELSE UNROMMapper_map(mp))
                          \o HardwareRegions
    /\ hw = NewHardware
    /\ ppu = [NewPPU EXCEPT !.nmi_callback = "cpu.nmi"]
    /\ halted = FALSE
    /\ cycles = 0
    /\ total_cycles = 0
    /\ opcode = 0
    /\ addr_rel = 0
    /\ last_instr_pc = 0
    /\ nmi_count = 0
    /\ called = "setup"
    /\ ret = 0
    /\ driver_calls = 0
    /\ bus_call = [address |-> 0, value |-> 0, handler |-> "None"]
    /\ pre = NewMacroProcessor
    /\ asm = NewAssembler
    /\ stepped = 0

\* the driver calls bus.read(address); bus_call keeps the argument and the
\* `region[2]` that Bus.read tests
BusRead ==
  /\ driver_calls < MaxBusCalls
  /\ \E address \in BusAddresses :
       /\ \E r \in {read(Machine, address)} : Becomes(r.m) /\ ret' = r.val
       /\ bus_call' =
            [address |-> address, value |-> 0,
             handler |-> LET region == find_region(mapped_regions,
                                                   address % 65536, "read")
                         IN IF region = 0 THEN "None"
                            ELSE mapped_regions[region].read_fn]
  /\ called' = "read"
  /\ driver_calls' = driver_calls + 1
  /\ UNCHANGED <<initial, pre, asm, stepped>>

\* the driver calls bus.write(address, value); bus_call keeps the arguments
\* and the `region[3]` that Bus.write tests
BusWrite ==
  /\ driver_calls < MaxBusCalls
  /\ \E address \in BusAddresses, value \in BusValues :
       /\ Becomes(write(Machine, address, value))
       /\ bus_call' =
            [address |-> address, value |-> value,
             handler |-> LET region == find_region(mapped_regions,
                                                   address % 65536, "write")
                         IN IF region = 0 THEN "None"
                            ELSE mapped_regions[region].write_fn]
  /\ called' = "write"
  /\ driver_calls' = driver_calls + 1
  /\ UNCHANGED <<ret, initial, pre, asm, stepped>>

NextBus == BusRead \/ BusWrite

SpecBus == InitBus /\ [][NextBus]_vars

\* --------------------------------------- the PPU registers driven directly
\* the system as constructed by emulador_gui.reset_cpu, the CPU idle, with
\* the PPU as earlier register traffic and stepping left it: new; in VBlank
\* with the address at $3F00; with $09 in palette entry 0 and the address at
\* $3F10; with bytes in the first nametable, the address at $2000 and the
\* first of two $2006 writes made; with the address at $3FFF; with PPUCTRL
\* bit 2 set, bytes in the first nametable and the address at $2000
InitRegs ==
  /\ regs = [NewRegisters EXCEPT !.pc = LoadAddr]
  /\ initial = [NewRegisters EXCEPT !.pc = LoadAddr]
  /\ ram = Image(<<234>>)
  /\ mapped_regions = <<OamDmaRegion, PpuRegion>>
  /\ ppu \in
       { [NewPPU EXCEPT !.nmi_callback = "cpu.nmi"],
         [NewPPU EXCEPT !.nmi_callback = "cpu.nmi", !.scanline = 245,
                        !.in_vblank = TRUE, !.regs[PPUSTATUS] = 128,
                        !.regs[PPUADDR] = 16128, !.temp_addr = 16128],
         [NewPPU EXCEPT !.nmi_callback = "cpu.nmi",
                        !.palette = MemSet(ZeroMem, 0, 9),
                        !.regs[PPUADDR] = 16144, !.temp_addr = 16144],
         [NewPPU EXCEPT !.nmi_callback = "cpu.nmi", !.scanline = 250,
                        !.in_vblank = TRUE, !.regs[PPUSTATUS] = 128,
                        !.vram = MemSet(MemSet(ZeroMem, 0, 17), 1, 34),
                        !.regs[PPUADDR] = 8192, !.read_buffer = 17,
                        !.temp_addr = 16128, !.addr_latch = 1],
         [NewPPU EXCEPT !.nmi_callback = "cpu.nmi",
                        !.regs[PPUADDR] = 16383, !.temp_addr = 16383],
         [NewPPU EXCEPT !.nmi_callback = "cpu.nmi", !.regs[PPUCTRL] = 4,
                        !.vram = MemSet(MemSet(ZeroMem, 0, 17), 32, 51),
                        !.regs[PPUADDR] = 8192, !.read_buffer = 17,
                        !.temp_addr = 8192] }
  /\ halted = FALSE
  /\ cycles = 0
  /\ total_cycles = 0
  /\ opcode = 0
  /\ addr_rel = 0
  /\ last_instr_pc = 0
  /\ nmi_count = 0
  /\ called = "setup"
  /\ ret = ResetCycles
  /\ driver_calls = 0
  /\ mapper = [kind |-> "None"]
  /\ hw = NewHardware
  /\ bus_call = [address |-> 0, value |-> 0, handler |-> "None"]
  /\ pre = NewMacroProcessor
  /\ asm = NewAssembler
  /\ stepped = 0

\* the driver reads $2002 or $2007 through the bus
RegRead ==
  /\ driver_calls < MaxRegCalls
  /\ \E address \in {PPUSTATUS, PPUDATA} :
       /\ \E r \in {read(Machine, address)} : Becomes(r.m) /\ ret' = r.val
       /\ bus_call' = [address |-> address, value |-> 0, handler |-> "ppu_read"]
  /\ called' = "read"
  /\ driver_calls' = driver_calls + 1
  /\ UNCHANGED <<initial, pre, asm, stepped>>

\* the driver writes $2005, $2006 or $2007 through the bus
RegWrite ==
  /\ driver_calls < MaxRegCalls
  /\ \E address \in {PPUSCROLL, PPUADDR, PPUDATA}, value \in {0, 4, 16, 63} :
       /\ Becomes(write(Machine, address, value))
       /\ bus_call' = [address |-> address, value |-> value,
                       handler |-> "ppu_write"]
  /\ called' = "write"
  /\ driver_calls' = driver_calls + 1
  /\ UNCHANGED <<ret, initial, pre, asm, stepped>>

NextRegs == RegRead \/ RegWrite

SpecRegs == InitRegs /\ [][NextRegs]_vars

\* ------------------------------------------- the preprocessor on a source
\* the lines a source file is made of
SourceLines ==
  { [first |-> ".if", rest |-> <<"0">>],
    [first |-> ".if", rest |-> <<"1">>],
    [first |-> ".ifdef", rest |-> <<"DEBUG">>],
    [first |-> ".ifndef", rest |-> <<"DEBUG">>],
    [first |-> ".else", rest |-> << >>],
    [first |-> ".endif", rest |-> << >>],
    [first |-> ".define", rest |-> <<"DEBUG", "1">>],
    [first |-> ".macro", rest |-> <<"M">>],
    [first |-> ".endmacro", rest |-> << >>],
    [first |-> ".include", rest |-> <<"inc.asm">>],
    [first |-> "M", rest |-> << >>],
    [first |-> "NOP", rest |-> << >>],
    [first |-> ";", rest |-> <<"note">>] }

\* MacroProcessor() and the call of process_lines on a source file
InitPre ==
  /\ regs = NewRegisters
  /\ initial = NewRegisters
  /\ ram = ZeroMem
  /\ mapped_regions = <<OamDmaRegion>>
  /\ ppu = NewPPU
  /\ halted = FALSE
  /\ cycles = 0
  /\ total_cycles = 0
  /\ opcode = 0
  /\ addr_rel = 0
  /\ last_instr_pc = 0
  /\ nmi_count = 0
  /\ called = "setup"
  /\ ret = 0
  /\ driver_calls = 0
  /\ mapper = [kind |-> "None"]
  /\ hw = NewHardware
  /\ bus_call = [address |-> 0, value |-> 0, handler |-> "None"]
  /\ pre = enter_process_lines(NewMacroProcessor, << >>)
  /\ asm = NewAssembler
  /\ stepped = 0

\* the loop of process_lines takes the next line: of the source file in the
\* outermost call (any line, while the file has more), of the macro body or
\* the included file in an inner call
ProcessLine ==
  /\ pre.raised = "None" /\ ~pre.returned
  /\ LET top == Len(pre.frames)
         frame == pre.frames[top]
     IN IF top = 1
        THEN /\ frame.line_number < MaxLines
             /\ \E line \in SourceLines : pre' = process_line(pre, line)
        ELSE /\ frame.line_number < Len(frame.lines)
             /\ pre' = process_line(pre, frame.lines[frame.line_number + 1])
  /\ called' = "process_line"
  /\ UNCHANGED <<regs, ram, mapped_regions, ppu, halted, cycles, total_cycles,
                 opcode, addr_rel, last_instr_pc, nmi_count, ret, driver_calls,
                 initial, mapper, hw, bus_call, asm, stepped>>

\* the loop of process_lines has no line left (the source file may end
\* after any line)
EndOfLines ==
  /\ pre.raised = "None" /\ ~pre.returned
  /\ LET top == Len(pre.frames)
         frame == pre.frames[top]
     IN top > 1 => frame.line_number = Len(frame.lines)
  /\ pre' = leave_process_lines(pre)
  /\ called' = "return"
  /\ UNCHANGED <<regs, ram, mapped_regions, ppu, halted, cycles, total_cycles,
                 opcode, addr_rel, last_instr_pc, nmi_count, ret, driver_calls,
                 initial, mapper, hw, bus_call, asm, stepped>>

NextPre == ProcessLine \/ EndOfLines

SpecPre == InitPre /\ [][NextPre]_vars

\* process_lines runs on: once called, its loop takes the next line or ends
SpecPreFair == SpecPre /\ WF_vars(NextPre)

\* --------------------------------------------- the assembler on a source
\* the lines a source is made of: NOP, L: NOP, BNE L, BEQ L, .org $0004 and
\* .org $0100
AsmLines ==
  { [label |-> "", word |-> "NOP", operand |-> ""],
    [label |-> "L", word |-> "NOP", operand |-> ""],
    [label |-> "", word |-> "BNE", operand |-> "L"],
    [label |-> "", word |-> "BEQ", operand |-> "L"],
    [label |-> "", word |-> ".ORG", operand |-> "$0004"],
    [label |-> "", word |-> ".ORG", operand |-> "$0100"] }

\* Assembler() and the call of assemble on a source
InitAsm ==
  /\ regs = NewRegisters
  /\ initial = NewRegisters
  /\ ram = ZeroMem
  /\ mapped_regions = <<OamDmaRegion>>
  /\ ppu = NewPPU
  /\ halted = FALSE
  /\ cycles = 0
  /\ total_cycles = 0
  /\ opcode = 0
  /\ addr_rel = 0
  /\ last_instr_pc = 0
  /\ nmi_count = 0
  /\ called = "setup"
  /\ ret = 0
  /\ driver_calls = 0
  /\ mapper = [kind |-> "None"]
  /\ hw = NewHardware
  /\ bus_call = [address |-> 0, value |-> 0, handler |-> "None"]
  /\ pre = NewMacroProcessor
  /\ \E n \in 0..MaxStatements : \E source \in [1..n -> AsmLines] :
       asm = [NewAssembler EXCEPT !.source = source]
  /\ stepped = 0

\* Parser.parse takes the next line of the source
ParseLine ==
  /\ asm.raised = "None"
  /\ asm.parsed < Len(asm.source)
  /\ asm' = parse_line(asm, asm.source[asm.parsed + 1])
  /\ called' = "parse_line"
  /\ UNCHANGED <<regs, ram, mapped_regions, ppu, halted, cycles, total_cycles,
                 opcode, addr_rel, last_instr_pc, nmi_count, ret, driver_calls,
                 initial, mapper, hw, bus_call, pre, stepped>>

\* _generate_code, called when the parser is done, takes the next statement
GenerateStatement ==
  /\ asm.raised = "None"
  /\ asm.parsed = Len(asm.source)
  /\ asm.generated < Len(asm.statements)
  /\ asm' = generate_statement(asm, asm.statements[asm.generated + 1])
  /\ called' = "generate_statement"
  /\ UNCHANGED <<regs, ram, mapped_regions, ppu, halted, cycles, total_cycles,
                 opcode, addr_rel, last_instr_pc, nmi_count, ret, driver_calls,
                 initial, mapper, hw, bus_call, pre, stepped>>

NextAsm == ParseLine \/ GenerateStatement

SpecAsm == InitAsm /\ [][NextAsm]_vars

\* the instructions with a numeric operand, plain or indexed, written in
\* hex with two or four digits or in decimal: LDA and LDX with each of them
ModeLines ==
  { [label |-> "", word |-> mnemonic, operand |-> operand] :
      mnemonic \in {"LDA", "LDX"},
      operand \in OperandTexts \ {"", "L", "$0004"} }

\* Assembler() and the call of assemble on a source of such instructions
InitModes ==
  /\ regs = NewRegisters
  /\ initial = NewRegisters
  /\ ram = ZeroMem
  /\ mapped_regions = <<OamDmaRegion>>
  /\ ppu = NewPPU
  /\ halted = FALSE
  /\ cycles = 0
  /\ total_cycles = 0
  /\ opcode = 0
  /\ addr_rel = 0
  /\ last_instr_pc = 0
  /\ nmi_count = 0
  /\ called = "setup"
  /\ ret = 0
  /\ driver_calls = 0
  /\ mapper = [kind |-> "None"]
  /\ hw = NewHardware
  /\ bus_call = [address |-> 0, value |-> 0, handler |-> "None"]
  /\ pre = NewMacroProcessor
  /\ \E n \in 0..MaxInstructions : \E source \in [1..n -> ModeLines] :
       asm = [NewAssembler EXCEPT !.source = source]
  /\ stepped = 0

SpecModes == InitModes /\ [][NextAsm]_vars

\* ------------------------------------------------------------- properties
\* the little-endian word the bytearray f holds at address a
Word(f, a) == MemGet(f, a) + 256 * MemGet(f, (a + 1) % 65536)

\* the address in page $01 the stack pointer sp, taken modulo 256, points at
StackAt(sp) == StackBase + (sp % 256)

\* the dots the PPU has counted: whole frames, whole scanlines, dots
PpuDots ==
  (ppu.frame * (LastScanline + 1) + ppu.scanline) * DotsPerScanline + ppu.ppu_cycle

\* the number of times the PPU has entered scanline 241 so far
VBlankEntries ==
  (ppu.frame * (LastScanline + 1) + ppu.scanline + (LastScanline + 1 - VBlankScanline))
    \div (LastScanline + 1)

\* the status byte of the flags in r with bit 5 set and bit 4 clear
FlagBits(r) == r.n * 128 + r.v * 64 + 32 + r.d * 8 + r.i * 4 + r.z * 2 + r.c

\* C1: every clock() call that returns c cycles advances the PPU by exactly
\* 3 * c dots and the CPU's cycle total by c, so the dots elapsed stay three
\* times the cycles consumed
ClockAdvancesPpuThreeDotsPerCycle ==
  [][called' = "clock" =>
       /\ PpuDots' = PpuDots + 3 * ret'
       /\ total_cycles' = total_cycles + ret']_vars

\* a run of clock() calls alone that took the PPU over a scanline boundary
ClockAdvancedPpu ==
  /\ called = "clock" /\ driver_calls = 0
  /\ total_cycles >= 7
  /\ ppu.scanline = VBlankScanline

\* C2: with PPUCTRL bit 7 set and the callback wired, every call raises the
\* NMI exactly as many times as it takes the PPU into scanline 241: once per
\* entry, whatever the split of the dots into step() calls and whatever
\* reads of $2002 come in between
NmiOncePerVBlank ==
  [][(Bit(ppu.regs[PPUCTRL], 7) = 1 /\ ppu.nmi_callback # "None") =>
       nmi_count' - nmi_count = VBlankEntries' - VBlankEntries]_vars

\* the NMI raised in a second VBlank, after a read of $2002 in the first
NmiRaisedInSecondVBlank ==
  /\ nmi_count = 2 /\ VBlankEntries = 2
  /\ ppu.frame = 1 /\ ppu.scanline >= VBlankScanline

\* C3: when a clock() call takes the PPU into scanline 241 with NMI enabled,
\* the CPU is in the NMI handler when the call returns: the PC the
\* instruction left and the status are on the stack, I is set and PC holds
\* the word at $FFFA
NmiEnteredBeforeNextFetch ==
  [][(called' = "clock" /\ VBlankEntries' > VBlankEntries
        /\ Bit(ppu'.regs[PPUCTRL], 7) = 1) =>
       LET e == execute(Machine).m.regs
           pushed == MemGet(ram', StackAt(e.sp - 2))
       IN /\ MemGet(ram', StackAt(e.sp)) = e.pc \div 256
          /\ MemGet(ram', StackAt(e.sp - 1)) = e.pc % 256
          /\ pushed - 16 * Bit(pushed, 4) = FlagBits(e)
          /\ regs'.sp = (e.sp - 3) % 256
          /\ regs'.i = 1
          /\ regs'.pc = Word(ram', NmiVector)]_vars

\* a clock() call that entered scanline 241 and left the CPU in the handler
NmiEnteredInsideClock ==
  /\ called = "clock" /\ driver_calls = 0
  /\ nmi_count = 1 /\ ppu.scanline = VBlankScanline
  /\ regs.pc = NmiHandler

\* C4: a clock() call whose opcode has no entry in the opcode table sets
\* halted
UnmappedOpcodeHalts ==
  [][(called' = "clock" /\ ~halted /\ lookup(fetch_byte(Machine).val)[1] = "XXX")
       => halted']_vars

\* C5: after any sequence of reset(), clock(), irq() and nmi() calls A, X, Y
\* and SP are bytes, PC is a 16-bit word and U is 1
RegistersInRange ==
  /\ regs.a \in 0..255 /\ regs.x \in 0..255 /\ regs.y \in 0..255
  /\ regs.sp \in 0..255
  /\ regs.pc \in 0..65535
  /\ regs.u = 1

\* a stack pointer that wrapped from the bottom of page $01 to its top
StackPointerWrapped ==
  /\ initial.sp = 1 /\ regs.sp = 254
  /\ called \in {"irq", "nmi", "clock"}

\* C6: nmi(), and irq() with I clear, push PC high, PC low and a status byte
\* with B clear, U set and the other bits equal to the flags, then set I and
\* load PC from the vector, leaving SP lower by 3 modulo 256
HardwareInterruptPushesBClear ==
  [][(called' = "nmi" \/ (called' = "irq" /\ regs.i = 0)) =>
       /\ MemGet(ram', StackAt(regs.sp)) = regs.pc \div 256
       /\ MemGet(ram', StackAt(regs.sp - 1)) = regs.pc % 256
       /\ MemGet(ram', StackAt(regs.sp - 2)) = FlagBits(regs)
       /\ regs'.i = 1
       /\ regs'.pc = Word(ram', IF called' = "nmi" THEN NmiVector ELSE IrqVector)
       /\ regs'.sp = (regs.sp - 3) % 256]_vars

\* C7: irq() called with I set returns 0 and changes no register, no flag
\* and no memory cell
MaskedIrqChangesNothing ==
  [][(called' = "irq" /\ regs.i = 1) =>
       /\ ret' = 0
       /\ UNCHANGED <<regs, ram, mapped_regions, ppu, halted, cycles,
                      total_cycles, opcode, addr_rel, last_instr_pc,
                      nmi_count, mapper, hw>>]_vars

\* an irq() call that was suppressed
IrqSuppressed == called = "irq" /\ ret = 0 /\ regs.i = 1

\* C8: reset() leaves A = X = Y = 0, SP = $FD, I = 1, U = 1 and PC equal to
\* the word at $FFFC, and returns 8
ResetLoadsPowerOnState ==
  [][called' = "reset" =>
       /\ regs'.a = 0 /\ regs'.x = 0 /\ regs'.y = 0
       /\ regs'.sp = 253
       /\ regs'.i = 1 /\ regs'.u = 1
       /\ regs'.pc = Word(ram', ResetVector)
       /\ ret' = 8]_vars

\* a reset() made after the registers had left their power-on values
ResetFromUsedState ==
  /\ called = "reset" /\ ret = 8
  /\ initial.a # 0 /\ initial.sp # 253 /\ initial.i = 0
  /\ regs.a = 0 /\ regs.sp = 253

\* C9: a BRK at address P pushes the high and the low byte of P + 2, then a
\* status byte with B and U set, sets I, loads PC from the word at $FFFE and
\* leaves SP lower by 3 modulo 256 (seen when no NMI arrives in the call)
BrkPushesReturnAndStatus ==
  [][(called' = "clock" /\ ~halted /\ fetch_byte(Machine).val = 0
        /\ nmi_count' = nmi_count) =>
       LET return_addr == (regs.pc + 2) % 65536
           pushed == MemGet(ram', StackAt(regs.sp - 2))
       IN /\ MemGet(ram', StackAt(regs.sp)) = return_addr \div 256
          /\ MemGet(ram', StackAt(regs.sp - 1)) = return_addr % 256
          /\ Bit(pushed, 4) = 1 /\ Bit(pushed, 5) = 1
          /\ regs'.i = 1
          /\ regs'.pc = Word(ram', IrqVector)
          /\ regs'.sp = (regs.sp - 3) % 256]_vars

\* a BRK executed with I clear, its pushes wrapping inside page $01
BrkExecuted ==
  /\ called = "clock" /\ opcode = 0 /\ nmi_count = 0 /\ driver_calls = 0
  /\ initial.sp = 1 /\ regs.sp = 254
  /\ regs.pc = IrqHandler

\* C10: after JSR $0300 and the RTS at $0300, PC is the address of the byte
\* after the three bytes of the JSR and SP is what it was before the JSR,
\* for every SP the harness starts from
JsrRtsRoundTrip ==
  (/\ called = "clock" /\ driver_calls = 0 /\ nmi_count = 0
   /\ MemGet(ram, initial.pc) = 32
   /\ total_cycles = 12)
    => (regs.pc = initial.pc + 3 /\ regs.sp = initial.sp)

\* the pair run from SP = 0, where the second push wraps to $01FF
JsrRtsFromWrappingStack ==
  /\ called = "clock" /\ driver_calls = 0 /\ nmi_count = 0
  /\ MemGet(ram, initial.pc) = 32
  /\ total_cycles = 12
  /\ initial.sp = 0 /\ regs.sp = 0

\* C11: in a program that starts with PHP, the state right after its matching
\* PLP has C, D, I, N, V and Z as they were at the PHP, whatever the
\* instructions in between did to them; B and U are as before and SP is back
PhpPlpRestoresFlags ==
  (/\ called = "clock" /\ opcode = 40 /\ driver_calls = 0 /\ nmi_count = 0
   /\ MemGet(ram, LoadAddr) = 8)
  => /\ \A flag \in {"c", "d", "i", "n", "v", "z", "b", "u"} :
          regs[flag] = initial[flag]
     /\ regs.sp = initial.sp

\* the PLP of PHP; SEC; CLI; CLV; LDA #$00; PLP has run from a stack pointer
\* that wraps, and put back the C, I, V and Z that the program had changed
PhpPlpAfterFlagChanges ==
  /\ called = "clock" /\ opcode = 40 /\ driver_calls = 0 /\ nmi_count = 0
  /\ MemGet(ram, LoadAddr) = 8 /\ MemGet(ram, LoadAddr + 1) = 56
  /\ initial.sp = 0 /\ regs.sp = 0
  /\ initial.c = 0 /\ initial.i = 0 /\ initial.v = 1 /\ initial.z = 1
  /\ regs.c = 0 /\ regs.i = 0 /\ regs.v = 1 /\ regs.z = 1

\* C12: a clock() that runs RTI (and takes no NMI afterwards) raises SP by 3
\* modulo 256, takes N, V, D, I, Z and C from the byte at SP+1 while B and U
\* stay as they were, and sets PC to the word whose low byte is at SP+2 and
\* whose high byte is at SP+3, with nothing added
RtiPullsStatusThenPc ==
  [][(called' = "clock" /\ opcode' = 64 /\ MemGet(ram, regs.pc) = 64
        /\ nmi_count' = nmi_count)
     => LET status == MemGet(ram, StackAt(regs.sp + 1))
            pc_low == MemGet(ram, StackAt(regs.sp + 2))
            pc_high == MemGet(ram, StackAt(regs.sp + 3))
        IN /\ regs'.sp = (regs.sp + 3) % 256
           /\ regs'.n = Bit(status, 7) /\ regs'.v = Bit(status, 6)
           /\ regs'.d = Bit(status, 3) /\ regs'.i = Bit(status, 2)
           /\ regs'.z = Bit(status, 1) /\ regs'.c = Bit(status, 0)
           /\ regs'.b = regs.b /\ regs'.u = regs.u
           /\ regs'.pc = pc_high * 256 + pc_low
           /\ regs'.a = regs.a /\ regs'.x = regs.x /\ regs'.y = regs.y]_vars

\* the RTI of the IRQ handler has run: it pulled, across the wrap of the
\* stack, a status byte with bits 4 and 5 set while B is 0, and the address
\* of the interrupted program
RtiReturnedFromIrq ==
  /\ called = "clock" /\ opcode = 64 /\ driver_calls = 1 /\ nmi_count = 0
  /\ last_instr_pc = IrqHandler /\ regs.pc = LoadAddr
  /\ initial.sp = 1 /\ regs.sp = 1
  /\ Bit(MemGet(ram, StackAt(initial.sp - 2)), 4) = 1
  /\ Bit(MemGet(ram, StackAt(initial.sp - 2)), 5) = 1
  /\ regs.b = 0 /\ regs.i = 0 /\ regs.n = 1 /\ regs.c = 1

\* C13: a clock() that runs SBC #M leaves the A, C, Z, N and V that ADC
\* leaves when it runs from the same registers with M xor $FF as its operand
SbcIsAdcOfComplement ==
  [][(called' = "clock" /\ opcode' = 233 /\ MemGet(ram, regs.pc) = 233)
     => LET operand == MemGet(ram, (regs.pc + 1) % 65536)
            start == [Machine EXCEPT
                        !.regs.pc = (regs.pc + 1) % 65536,
                        !.ram = MemSet(ram, (regs.pc + 1) % 65536,
                                       BitXor(operand, 255))]
            added == ADC(start, "IMM").m.regs
        IN \A reg \in {"a", "c", "z", "n", "v"} : regs'[reg] = added[reg]]_vars

\* C14: a clock() that runs one of the eight branch instructions (and takes
\* no NMI afterwards) either finds its condition true, and then leaves
\* PC = (pc_after + offset) mod $10000, with pc_after the address after the
\* two bytes and offset the operand byte as a signed number, for 2 + 1 cycles
\* and one more when pc_after and the new PC lie in different pages, or finds
\* it false, and then leaves PC = pc_after for 2 cycles
BranchTargetAndCycles ==
  [][(called' = "clock" /\ MemGet(ram, regs.pc) = opcode'
        /\ opcode' \in {144, 176, 240, 48, 208, 16, 80, 112}
        /\ nmi_count' = nmi_count)
     => LET holds == CASE opcode' = 144 -> regs.c = 0
                       [] opcode' = 176 -> regs.c = 1
                       [] opcode' = 240 -> regs.z = 1
                       [] opcode' = 208 -> regs.z = 0
                       [] opcode' = 48 -> regs.n = 1
                       [] opcode' = 16 -> regs.n = 0
                       [] opcode' = 80 -> regs.v = 0
                       [] opcode' = 112 -> regs.v = 1
            byte == MemGet(ram, (regs.pc + 1) % 65536)
            offset == IF byte >= 128 THEN byte - 256 ELSE byte
            pc_after == (regs.pc + 2) % 65536
            target == (pc_after + offset) % 65536
        IN IF holds
           THEN /\ regs'.pc = target
                /\ ret' = 2 + 1 + (IF pc_after \div 256 # target \div 256
                                   THEN 1 ELSE 0)
           ELSE regs'.pc = pc_after /\ ret' = 2]_vars

\* BCC with offset -3 was taken from $8002 back into page $7F, for 4 cycles
BranchTakenBackwardsAcrossPage ==
  /\ called = "clock" /\ opcode = 144 /\ last_instr_pc = LoadAddr
  /\ regs.c = 0 /\ regs.pc = LoadAddr - 1 /\ ret = 4

\* C15: a clock() that runs JMP (ptr) (and takes no NMI afterwards) leaves
\* PC with the low byte found at ptr and the high byte found at ptr & $FF00
\* when the low byte of ptr is $FF, and at ptr + 1 otherwise
JmpIndirectPageWrap ==
  [][(called' = "clock" /\ opcode' = 108 /\ MemGet(ram, regs.pc) = 108
        /\ nmi_count' = nmi_count)
     => LET ptr == Word(ram, (regs.pc + 1) % 65536)
            high_at == IF ptr % 256 = 255 THEN (ptr \div 256) * 256
                       ELSE ptr + 1
        IN regs'.pc = MemGet(ram, high_at) * 256 + MemGet(ram, ptr)]_vars

\* JMP ($10FF) went to $ABCD: low byte $CD from $10FF, high byte $AB from
\* $1000, while $1100 holds $00
JmpIndirectThroughPageEnd ==
  /\ called = "clock" /\ opcode = 108 /\ last_instr_pc = LoadAddr
  /\ Word(ram, LoadAddr + 1) = 4351 /\ MemGet(ram, 4352) = 0
  /\ regs.pc = 171 * 256 + 205

\* C16: a bus read of address a is served by the reader of the region that
\* was registered first among those that cover a and have a reader, and
\* when there is none it returns the byte of the backing store at a and
\* changes nothing; a bus write goes to the writer of the region registered
\* first among those that cover a and have a writer, leaving the backing
\* store alone, and when there is none it is stored in the backing store at a
BusServesEarliestRegion ==
  [][called' \in {"read", "write"} =>
       LET a == bus_call'.address % 65536
           covering == {k \in 1..Len(mapped_regions) :
                          /\ mapped_regions[k].start <= a
                          /\ a <= mapped_regions[k].end}
           readers == {k \in covering : mapped_regions[k].read_fn # "None"}
           writers == {k \in covering : mapped_regions[k].write_fn # "None"}
           first(S) == CHOOSE k \in S : \A j \in S : k <= j
       IN IF called' = "read"
          THEN IF readers = {}
               THEN /\ bus_call'.handler = "None"
                    /\ ret' = MemGet(ram, a)
                    /\ UNCHANGED <<ram, mapper, hw, ppu>>
               ELSE bus_call'.handler = mapped_regions[first(readers)].read_fn
          ELSE IF writers = {}
               THEN /\ bus_call'.handler = "None"
                    /\ ram' = MemSet(ram, a, bus_call'.value % 256)
                    /\ UNCHANGED <<mapper, hw, ppu>>
               ELSE /\ bus_call'.handler = mapped_regions[first(writers)].write_fn
                    /\ ram' = ram]_vars

\* a write to $4014, which two regions with a writer cover, was served by
\* the handler Bus.__init__ registered, and the DMA it starts is under way
WriteServedByFirstOfTwoWriters ==
  /\ called = "write" /\ bus_call.address = OAMDMA
  /\ bus_call.handler = "oam_dma_handler"
  /\ \E j, k \in 1..Len(mapped_regions) :
       /\ j < k
       /\ mapped_regions[j].start = OAMDMA /\ mapped_regions[k].start = OAMDMA
       /\ mapped_regions[j].write_fn = "oam_dma_handler"
       /\ mapped_regions[k].write_fn = "dma_write"
  /\ ppu.oam_dma_active

\* C17: bus.read(a) returns a byte and does exactly what bus.read(a mod
\* $10000) does, and bus.write(a, v) does exactly what bus.write(a mod
\* $10000, v mod $100) does, for addresses and values inside and outside
\* their ranges
BusWrapsAddressAndValue ==
  [][/\ called' = "read" =>
          LET r == read(Machine, bus_call'.address % 65536)
          IN ret' = r.val /\ ret' \in 0..255 /\ Machine' = r.m
     /\ called' = "write" =>
          Machine' = write(Machine, bus_call'.address % 65536,
                           bus_call'.value % 256)]_vars

\* bus.write($18000, $103) selected bank 3 of four, as bus.write($8000, 3)
\* does
WriteBeyondRangeSelectedBank ==
  /\ called = "write" /\ bus_call.address = 98304 /\ bus_call.value = 259
  /\ bus_call.handler = "bank_select_write"
  /\ mapper.kind = "UNROM" /\ mapper.bank_count = 4 /\ mapper.cur_bank = 3
  /\ ram = ZeroMem

\* C18: with a 16 KiB NROM cartridge, in every state reached by bus reads and
\* writes, reading $8000+k and $C000+k both give byte k of the cartridge's
\* PRG, and a write to $8000..$FFFF changes neither the backing RAM nor the
\* mapper
Nrom16MirrorsAndSwallowsWrites ==
  /\ [](mapper.kind = "NROM" /\ mapper.size = 16384 =>
          \A k \in ProbeOffsets \cup {2, 4097, 16382} :
             /\ read(Machine, 32768 + k).val = MemGet(PrgOf(1).bytes, k)
             /\ read(Machine, 49152 + k).val = MemGet(PrgOf(1).bytes, k))
  /\ [][(/\ called' = "write" /\ mapper.kind = "NROM" /\ mapper.size = 16384
          /\ bus_call'.address % 65536 >= 32768)
         => UNCHANGED <<ram, mapper>>]_vars

\* after writes to $8000 and $FFFF of a 16 KiB NROM cartridge, the last byte
\* of the PRG is still read at $BFFF and at $FFFF, and RAM is still empty
Nrom16WrittenTwice ==
  /\ mapper.kind = "NROM" /\ mapper.size = 16384
  /\ driver_calls = 2 /\ called = "write"
  /\ bus_call = [address |-> -1, value |-> 7, handler |-> "write_ignore"]
  /\ read(Machine, 49151).val = 28 /\ read(Machine, 65535).val = 28
  /\ ram = ZeroMem

\* C19: with UNROM over a PRG of n banks, before the driver's first call a
\* read of $8000+k gives byte k of bank 0; after a write of the byte v to an
\* address in $8000..$FFFF it gives byte k of bank v mod n (v being the byte
\* the bus passes on, the value modulo $100); and any other call leaves what
\* is read there as it was
UnromWriteSelectsBank ==
  /\ [](mapper.kind = "UNROM" /\ driver_calls = 0 =>
          \A k \in ProbeOffsets \cup {2} :
             read(Machine, 32768 + k).val
               = MemGet(PrgOf(mapper.prg_size \div 16384).bytes, k))
  /\ [][(mapper.kind = "UNROM" /\ called' \in {"read", "write"}) =>
          LET n == mapper.prg_size \div 16384
              v == bus_call'.value % 256
          IN \A k \in ProbeOffsets \cup {2} :
               read(Machine', 32768 + k).val
                 = IF called' = "write" /\ bus_call'.address % 65536 >= 32768
                   THEN MemGet(PrgOf(n).bytes, (v % n) * 16384 + k)
                   ELSE read(Machine, 32768 + k).val]_vars

\* the second call wrote 7 to $FFFF of an UNROM cartridge of three banks:
\* bank 1 is selected, and $8000 reads its first byte
UnromSelectedBankOne ==
  /\ mapper.kind = "UNROM" /\ mapper.prg_size = 3 * 16384
  /\ driver_calls = 2 /\ called = "write"
  /\ bus_call = [address |-> 65535, value |-> 7, handler |-> "bank_select_write"]
  /\ read(Machine, 32768).val = 33 /\ read(Machine, 32768 + 16383).val = 60

\* C20: with UNROM over a PRG of n banks, in every state reached by bus
\* reads and writes a read of $C000+k gives byte k of bank n - 1, and the
\* mapper's PRG is the cartridge's PRG
UnromLastBankFixed ==
  (mapper.kind = "UNROM") =>
    LET n == mapper.prg_size \div 16384
    IN /\ \A k \in ProbeOffsets \cup {2} :
            read(Machine, 49152 + k).val
              = MemGet(PrgOf(n).bytes, (n - 1) * 16384 + k)
       /\ mapper.prg = PrgOf(n).bytes

\* two bank-select writes left bank 2 of four selected: $8000 reads bank 2
\* while $C000 and $FFFF read the first and last bytes of bank 3
UnromSwitchedAwayFromLastBank ==
  /\ mapper.kind = "UNROM" /\ mapper.prg_size = 4 * 16384
  /\ driver_calls = 2 /\ called = "write"
  /\ bus_call = [address |-> 32768, value |-> 2, handler |-> "bank_select_write"]
  /\ mapper.cur_bank = 2 /\ read(Machine, 32768).val = 65
  /\ read(Machine, 49152).val = 97 /\ read(Machine, 65535).val = 124

\* C21: a step() that takes the scanline counter into 241 (from below, or
\* through the end of the frame) leaves PPUSTATUS bit 7 set, one that takes
\* it past 260 and not into 241 again leaves it clear, and a step() or a
\* register write that does neither leaves the bit as it was: with no read
\* of $2002 the bit is 1 exactly while the scanline is in 241..260
VBlankFlagTracksScanline ==
  [][called' \in {"step", "write"} =>
       LET entered == /\ ppu'.scanline >= VBlankScanline
                      /\ (ppu.scanline < VBlankScanline \/ ppu'.frame # ppu.frame)
           left == ppu'.frame # ppu.frame /\ ppu'.scanline < VBlankScanline
           flag == Bit(ppu.regs[PPUSTATUS], 7)
       IN /\ ppu'.scanline \in 0..LastScanline
          /\ Bit(ppu'.regs[PPUSTATUS], 7)
               = IF entered THEN 1 ELSE IF left THEN 0 ELSE flag
          /\ (flag = 1 <=> ppu.scanline >= VBlankScanline)
               => (Bit(ppu'.regs[PPUSTATUS], 7) = 1
                     <=> ppu'.scanline >= VBlankScanline)]_vars

\* the PPU is in the VBlank of its second frame with bit 7 set: the bit was
\* set in the first frame, cleared at its end and set again
SecondVBlankFlagged ==
  /\ called = "step" /\ ppu.frame = 1
  /\ ppu.scanline \in VBlankScanline..LastScanline
  /\ Bit(ppu.regs[PPUSTATUS], 7) = 1

\* C22: a read of $2002 returns the status byte as it was, bit 7 included,
\* and leaves bit 7 clear, the other status bits unchanged and the address
\* latch reset, so that of the next two writes to $2006 the first only
\* stores the high byte and the second sets the address to high * 256 + low
StatusReadClearsVBlankAndLatch ==
  [][(called' = "read" /\ bus_call'.address = PPUSTATUS) =>
       /\ ret' = ppu.regs[PPUSTATUS] % 256
       /\ ppu'.regs[PPUSTATUS] = ret' - 128 * Bit(ret', 7)
       /\ ppu'.addr_latch = 0
       /\ \A high \in {0, 63}, low \in {4, 16} :
            LET first == ppu_write_register(ppu', PPUADDR, high)
                second == ppu_write_register(first, PPUADDR, low)
            IN /\ first.regs[PPUADDR] = ppu'.regs[PPUADDR]
               /\ first.addr_latch = 1
               /\ second.regs[PPUADDR] = high * 256 + low
               /\ second.addr_latch = 0]_vars

\* $2002 was read in VBlank after the first of two $2006 writes: the read
\* returned $80 and the latch is reset, the half-written address still in
\* temp_addr
StatusReadBetweenAddressWrites ==
  /\ called = "read" /\ bus_call.address = PPUSTATUS /\ driver_calls = 1
  /\ ret = 128 /\ ppu.regs[PPUSTATUS] = 0 /\ ppu.addr_latch = 0
  /\ ppu.temp_addr = 16128 /\ ppu.regs[PPUADDR] = 8192

\* C23 as stated: reads of $2007 through $3F00, $3F04, $3F08 and $3F0C return
\* the same value, which is the value of the latest $2007 write made through
\* one of those four addresses: such a write sets it, no other call changes it
PaletteZeroSetOnlyThroughItsFourAddresses ==
  [][LET Peek(p, a) ==
           LET s0 == ppu_read_register(p, PPUSTATUS).p
               s1 == ppu_write_register(s0, PPUADDR, a \div 256)
               s2 == ppu_write_register(s1, PPUADDR, a % 256)
           IN ppu_read_register(s2, PPUDATA).val
         Four == {16128, 16132, 16136, 16140}
         through == ppu.regs[PPUADDR] % 65536
     IN /\ \A a \in Four : Peek(ppu', a) = Peek(ppu', 16128)
        /\ Peek(ppu', 16128) =
             IF called' = "write" /\ bus_call'.address = PPUDATA /\ through \in Four
             THEN bus_call'.value % 256
             ELSE Peek(ppu, 16128)]_vars

\* C23 amended: reads of $2007 through $3F00, $3F04, $3F08 and $3F0C return
\* the same value, which is the value of the latest $2007 write made through
\* any address of $3F00-$3FFF whose offset in the 32-byte palette is a
\* multiple of four ($3F10, $3F14, $3F18, $3F1C and the mirrors included)
PaletteZeroSetThroughEveryFourthAddress ==
  [][LET Peek(p, a) ==
           LET s0 == ppu_read_register(p, PPUSTATUS).p
               s1 == ppu_write_register(s0, PPUADDR, a \div 256)
               s2 == ppu_write_register(s1, PPUADDR, a % 256)
           IN ppu_read_register(s2, PPUDATA).val
         Four == {16128, 16132, 16136, 16140}
         through == ppu.regs[PPUADDR] % 65536
     IN /\ \A a \in Four : Peek(ppu', a) = Peek(ppu', 16128)
        /\ Peek(ppu', 16128) =
             IF /\ called' = "write" /\ bus_call'.address = PPUDATA
                /\ through \in 16128..16383
                /\ ((through - 16128) % 32) % 4 = 0
             THEN bus_call'.value % 256
             ELSE Peek(ppu, 16128)]_vars

\* $2007 was written with 4 through $3F10 while entry 0 held 9, and $3F00,
\* $3F04, $3F08 and $3F0C now read 4
PaletteZeroWrittenThroughSpriteMirror ==
  /\ called = "write" /\ bus_call.address = PPUDATA /\ bus_call.value = 4
  /\ driver_calls = 1
  /\ ppu.regs[PPUADDR] = 16145
  /\ \A a \in {0, 4, 8, 12} : read_palette(ppu, a) = 4

\* C24: a write of page P to $4014 while OAMADDR = k leaves, for every i in
\* 0..255, OAM[(k + i) mod 256] equal to the bus byte at P * $100 + i as it
\* was when the DMA started
OamDmaFillsFromOamAddr ==
  [][(/\ called' = "clock" /\ ~halted
      /\ MemGet(ram, regs.pc) = 141
      /\ Word(ram, (regs.pc + 1) % 65536) = OAMDMA)
       => LET k == ppu.regs[OAMADDR] % 256
              P == regs.a
          IN \A i \in 0..255 :
               MemGet(ppu'.oam, (k + i) % 256) = read(Machine, P * 256 + i).val]_vars

\* C25: right after a write to $4014 started the DMA (no scanline ended since)
\* the stall counter holds 513 when the CPU cycle count was even and 514 when
\* it was odd
OamDmaStallFollowsCycleParity ==
  [][(/\ called' = "clock" /\ ~halted
      /\ MemGet(ram, regs.pc) = 141
      /\ Word(ram, (regs.pc + 1) % 65536) = OAMDMA
      /\ ppu'.scanline = ppu.scanline /\ ppu'.frame = ppu.frame)
       => /\ ppu'.oam_dma_active
          /\ ppu'.oam_dma_cycles = IF total_cycles % 2 = 0 THEN 513 ELSE 514]_vars

\* C30: while a DMA is marked active, a clock() call of c cycles (which ends
\* with step(3 * c)) lowers the stall counter by c, not below 0, and the DMA
\* stays marked active exactly while the counter is above 0
StepPaysOffDmaStall ==
  [][(/\ called' = "clock" /\ ~halted /\ ppu.oam_dma_active
      /\ ~(MemGet(ram, regs.pc) = 141 /\ Word(ram, (regs.pc + 1) % 65536) = OAMDMA))
       => LET left == ppu.oam_dma_cycles - ret'
          IN /\ ppu'.oam_dma_cycles = IF left > 0 THEN left ELSE 0
             /\ ppu'.oam_dma_active = (ppu'.oam_dma_cycles > 0)]_vars

\* C26: a conditional block is active only when its selected branch is true
\* and every enclosing block is active; no line inside an inactive block is
\* emitted, whichever part of a nested block it is in
InactiveBlocksEmitNothing ==
  [][called' = "process_line" =>
       LET line == pre'.line
           before == pre.conditional_stack
           after == pre'.conditional_stack
           n == Len(before)
           top == Len(pre.frames)
           enclosing == \A k \in 1..n : before[k].active
           handled == ~pre.in_macro_definition /\ pre'.raised = "None"
           value == IF line.rest # << >> /\ line.rest[1] \in DOMAIN pre.symbols
                    THEN pre.symbols[line.rest[1]] ELSE "undefined"
           true == CASE line.first = ".if" ->
                          IF value = "undefined" THEN line.rest[1] = "1"
                          ELSE value = "1"
                     [] line.first = ".ifdef" -> value # "undefined"
                     [] OTHER -> value = "undefined"
       IN /\ \A i \in 1..Len(after) :
               after[i].active => \A j \in 1..(i - 1) : after[j].active
          /\ (handled /\ line.first \in {".if", ".ifdef", ".ifndef"})
               => /\ Len(after) = n + 1
                  /\ after[n + 1].active = (true /\ enclosing)
          /\ (handled /\ line.first = ".else")
               => /\ Len(after) = n
                  /\ after[n].active =
                       (~before[n].active /\ \A k \in 1..(n - 1) : before[k].active)
          /\ ~enclosing
               => /\ Len(pre'.frames) = top
                  /\ pre'.frames[top].processed_lines
                       = pre.frames[top].processed_lines]_vars

\* C27: a branch at address P (as the parser tracks it through .org) whose
\* target T has -128 <= T - (P + 2) <= 127 is assembled as its opcode and the
\* byte (T - (P + 2)) mod 256
BranchOperandIsOffsetFromItsAddress ==
  [][(called' = "generate_statement" /\ asm.raised = "None") =>
       LET statements == asm.statements
           i == asm.generated + 1
           after[k \in 0..Len(statements)] ==
             IF k = 0 THEN 0
             ELSE IF "directive" \in DOMAIN statements[k]
             THEN parse_number(asm, statements[k].operands[1])
             ELSE after[k - 1] + statements[k].size
           P == after[i - 1]
           T == asm.symbols[statements[i].operand]
       IN (/\ "mnemonic" \in DOMAIN statements[i]
           /\ statements[i].addressing_mode = "RELATIVE"
           /\ statements[i].operand \in DOMAIN asm.symbols
           /\ -128 <= T - (P + 2) /\ T - (P + 2) <= 127)
            => /\ asm'.raised = "None"
               /\ asm'.binary = asm.binary
                    \o <<statements[i].opcode, (T - (P + 2)) % 256>>]_vars

\* C28: a branch whose offset T - (P + 2) is outside -128..127 makes the
\* assembly fail: an error is raised and no byte is added for it
BranchOutOfRangeIsAnError ==
  [][(called' = "generate_statement" /\ asm.raised = "None") =>
       LET statements == asm.statements
           i == asm.generated + 1
           after[k \in 0..Len(statements)] ==
             IF k = 0 THEN 0
             ELSE IF "directive" \in DOMAIN statements[k]
             THEN parse_number(asm, statements[k].operands[1])
             ELSE after[k - 1] + statements[k].size
           P == after[i - 1]
           T == asm.symbols[statements[i].operand]
       IN (/\ "mnemonic" \in DOMAIN statements[i]
           /\ statements[i].addressing_mode = "RELATIVE"
           /\ statements[i].operand \in DOMAIN asm.symbols
           /\ (T - (P + 2) < -128 \/ T - (P + 2) > 127))
            => /\ asm'.raised # "None"
               /\ asm'.binary = asm.binary]_vars

\* C29: while no .org has moved the address backward, the bytes of the
\* statement assembled at address a start at offset a - o of the output, o
\* being the address of a leading .org (0 without one), the output ends at
\* the current address, and every byte between statements is zero
OutputOffsetIsAddressMinusOrigin ==
  LET statements == asm.statements
      n == asm.generated
      after[k \in 0..Len(statements)] ==
        IF k = 0 THEN 0
        ELSE IF "directive" \in DOMAIN statements[k]
        THEN parse_number(asm, statements[k].operands[1])
        ELSE after[k - 1] + statements[k].size
      o == IF n >= 1 /\ "directive" \in DOMAIN statements[1] THEN after[1] ELSE 0
      forward == \A k \in 2..n : after[k] >= after[k - 1]
      coded == {k \in 1..n : statements[k].size > 0}
  IN (asm.raised = "None" /\ asm.parsed = Len(asm.source) /\ forward)
       => /\ Len(asm.binary) = after[n] - o
          /\ \A k \in coded : asm.binary[after[k - 1] - o + 1] = statements[k].opcode
          /\ \A j \in 1..Len(asm.binary) :
               (\A k \in coded : j <= after[k - 1] - o \/ j > after[k] - o)
                  => asm.binary[j] = 0

\* C31: the frame counter is the number of whole frames of 341 x 262 = 89342
\* dots among the dots handed to step() since power-on, however the dots
\* were split across the calls
FrameCountsDotsOfTwoHundredSixtyTwoScanlines ==
  ppu.frame = stepped \div (DotsPerScanline * 262)

\* C32: $2005 and $2006 share one write latch: a write to either register
\* toggles it, and after a write to $2005 made with the latch clear a write
\* to $2006 is the second of its pair, which sets the low byte of the VRAM
\* address and clears the latch
ScrollAndAddressShareTheLatch ==
  [][(called' = "write" /\ bus_call'.address \in {PPUSCROLL, PPUADDR}) =>
       /\ ppu'.addr_latch = 1 - ppu.addr_latch
       /\ (bus_call'.address = PPUSCROLL /\ ppu.addr_latch = 0) =>
            \A low \in {4, 16} :
              LET second == ppu_write_register(ppu', PPUADDR, low)
              IN /\ second.addr_latch = 0
                 /\ second.regs[PPUADDR] % 256 = low]_vars

\* C33: the VRAM address is a 14-bit value, in 0..$3FFF, after every $2006
\* write and every $2007 read or write, and two writes hi, lo to $2006 made
\* with the latch clear set it to (hi * 256 + lo) mod $4000
VramAddressIsFourteenBits ==
  [][called' \in {"read", "write"} =>
       /\ ppu'.regs[PPUADDR] \in 0..16383
       /\ \A hi \in {63, 64, 255}, lo \in {4, 255} :
            LET clear == ppu_read_register(ppu', PPUSTATUS).p
                first == ppu_write_register(clear, PPUADDR, hi)
                second == ppu_write_register(first, PPUADDR, lo)
            IN second.regs[PPUADDR] = (hi * 256 + lo) % 16384]_vars

\* C34: a read of $2007 with the VRAM address outside $3F00-$3FFF returns
\* what the read buffer held before the read and refills the buffer (from
\* the nametable byte at the address the read advances to); with the address
\* in $3F00-$3FFF it returns the palette byte at that address at once and
\* leaves the buffer alone; either way the address then advances by 1, or by
\* 32 when PPUCTRL bit 2 is set
DataReadIsBufferedExceptPalette ==
  [][(called' = "read" /\ bus_call'.address = PPUDATA) =>
       LET a == ppu.regs[PPUADDR]
           inc == IF (ppu.regs[PPUCTRL] \div 4) % 2 = 1 THEN 32 ELSE 1
           entry == IF (a % 32) % 4 = 0 THEN 0 ELSE a % 32
       IN /\ IF a \in 16128..16383
             THEN /\ ret' = MemGet(ppu.palette, entry)
                  /\ ppu'.read_buffer = ppu.read_buffer
             ELSE /\ ret' = ppu.read_buffer
                  /\ ppu'.read_buffer = MemGet(ppu.vram, (a + inc) % 2048)
          /\ ppu'.regs[PPUADDR] = (a + inc) % 65536
          /\ ppu'.vram = ppu.vram /\ ppu'.palette = ppu.palette]_vars

\* with PPUCTRL bit 2 set and the address at $2000, $2007 was written with 4
\* and then read: the read returned 17, which the buffer held, and neither
\* the 4 now at $2000 nor the 51 at $2020, the address it was made at; the
\* address has advanced by 32 twice and the buffer holds the byte at $2040
DataReadReturnedStaleBuffer ==
  /\ called = "read" /\ bus_call.address = PPUDATA /\ driver_calls = 2
  /\ ppu.regs[PPUCTRL] = 4 /\ ret = 17
  /\ MemGet(ppu.vram, 0) = 4 /\ MemGet(ppu.vram, 32) = 51
  /\ ppu.regs[PPUADDR] = 8192 + 64 /\ ppu.read_buffer = 0

\* C35: a halted CPU stays halted over every call but reset(), which ends
\* the halt, and a clock() of the halted CPU returns 0 and changes no
\* register or flag, no memory cell, no cycle counter and nothing of the PPU
HaltedUntilReset ==
  [][halted =>
       /\ halted' <=> called' # "reset"
       /\ called' = "clock" =>
            /\ ret' = 0
            /\ UNCHANGED <<regs, ram, ppu, cycles, total_cycles, opcode,
                           addr_rel, last_instr_pc, nmi_count, mapped_regions>>]_vars

\* the halted CPU took an nmi() and was then clocked: the clock returned 0
\* and left the PC at the handler's first instruction, the CPU still halted
HaltedCpuClockedAfterNmi ==
  /\ halted /\ called = "clock" /\ ret = 0 /\ driver_calls = 1
  /\ regs.pc = NmiHandler /\ total_cycles = 0

\* C36: after an interrupt entry through nmi(), or through irq() with I
\* clear, the RTI of the handler (run by a clock() during which the PPU
\* raises no further NMI) leaves PC, SP and the flags C, Z, I, D, V and N
\* with the values they had just before the entry; the same is seen on the
\* run itself when the entry is the first call made and the RTI the second
InterruptThenRtiRestores ==
  [][LET Same(before, after) ==
           /\ after.pc = before.pc /\ after.sp = before.sp
           /\ after.c = before.c /\ after.z = before.z /\ after.i = before.i
           /\ after.d = before.d /\ after.v = before.v /\ after.n = before.n
     IN /\ (called' \in {"nmi", "irq"} /\ ret' # 0 /\ ~halted) =>
             LET back == clock(Machine').m
             IN /\ back.opcode = 64
                /\ back.nmi_count = nmi_count' => Same(regs, back.regs)
        /\ (/\ called \in {"nmi", "irq"} /\ ret # 0 /\ ~halted
            /\ driver_calls = 1 /\ total_cycles = 0
            /\ called' = "clock" /\ nmi_count' = nmi_count) =>
             /\ opcode' = 64
             /\ Same(initial, regs')]_vars

\* nmi() was called with SP = $00, I and C clear and V, Z and D set, and the
\* handler's RTI has run: the program is back at its first instruction with
\* the same stack pointer and flags
RtiReturnedFromNmi ==
  /\ called = "clock" /\ opcode = 64 /\ driver_calls = 1 /\ nmi_count = 0
  /\ last_instr_pc = NmiHandler /\ regs.pc = LoadAddr /\ total_cycles = 6
  /\ initial.sp = 0 /\ regs.sp = 0
  /\ regs.i = 0 /\ regs.c = 0 /\ regs.v = 1 /\ regs.z = 1 /\ regs.d = 1
  /\ regs.n = 0

\* C37: a macro invocation or an .include met inside an open, active
\* conditional block succeeds: when the inner process_lines call has taken
\* the last line of an expansion made of plain instructions and comments, it
\* returns without error, the lines are appended to the caller's output and
\* the conditional stack is the one the block was opened with
ExpansionInsideOpenBlockSucceeds ==
  [][(/\ called' = "return" /\ Len(pre.frames) > 1
      /\ pre.conditional_stack # << >> /\ is_active_conditional_block(pre)
      /\ ~pre.in_macro_definition
      /\ \A k \in 1..Len(pre.frames[Len(pre.frames)].lines) :
           pre.frames[Len(pre.frames)].lines[k].first \in {"NOP", "CLC", ";"})
       => LET top == Len(pre.frames)
          IN /\ pre'.raised = "None"
             /\ pre'.conditional_stack = pre.conditional_stack
             /\ Len(pre'.frames) = top - 1
             /\ pre'.frames[top - 1].processed_lines
                  = pre.frames[top - 1].processed_lines \o pre.frames[top].lines]_vars

\* C38: within one conditional block .else takes effect at most once: the
\* first .else of a block flips its branch (the block becomes active exactly
\* when it was inactive and the enclosing block is active) and marks the
\* block; an .else for a block already marked is an error and flips nothing;
\* no other line changes the branch of a block that stays open
ElseFlipsAtMostOnce ==
  [][(called' = "process_line" /\ ~pre.in_macro_definition) =>
       LET before == pre.conditional_stack
           after == pre'.conditional_stack
           n == Len(before)
       IN IF pre'.line.first = ".else" /\ n > 0
          THEN IF before[n].has_else
               THEN pre'.raised = "SyntaxError" /\ after = before
               ELSE /\ pre'.raised = "None" /\ Len(after) = n
                    /\ after[n].has_else
                    /\ after[n].active
                         = (~before[n].active /\ (n > 1 => before[n - 1].active))
                    /\ \A k \in 1..(n - 1) : after[k] = before[k]
          ELSE \A k \in 1..n : k <= Len(after) => after[k] = before[k]]_vars

\* a block opened by `.if 0` inside an active block had its .else, which
\* made it active, and then met a second .else: the run ended with a
\* SyntaxError and the block is still active
SecondElseRejected ==
  /\ called = "process_line" /\ pre.line.first = ".else"
  /\ pre.raised = "SyntaxError" /\ Len(pre.conditional_stack) = 2
  /\ pre.conditional_stack[2].has_else /\ pre.conditional_stack[2].active
  /\ pre.conditional_stack[2].condition = "0"
  /\ pre.conditional_stack[1].active /\ ~pre.conditional_stack[1].has_else

\* C39: for a plain or indexed numeric operand the parser selects the
\* zero-page form (zero-page, zero-page,X, zero-page,Y) exactly when the
\* value of the numeral is in 0..255, in hex or in decimal and whatever the
\* number of digits, and the absolute form otherwise
ZeroPageExactlyWhenValueFitsAByte ==
  [][(called' = "parse_line" /\ asm'.raised = "None"
        /\ asm.source[asm.parsed + 1].word \in {"LDA", "LDX"}) =>
       LET chars == characters(asm.source[asm.parsed + 1].operand)
           number == parse_number(asm, text_of(before_comma(chars)))
           index == IF before_comma(chars) = chars THEN "" ELSE chars[Len(chars)]
           stmt == asm'.statements[Len(asm'.statements)]
       IN number # -1 =>
            stmt.addressing_mode =
              CASE index = "" -> IF number \in 0..255 THEN "ZEROPAGE" ELSE "ABSOLUTE"
                [] index = "X" -> IF number \in 0..255 THEN "ZEROPAGE_X" ELSE "ABSOLUTE_X"
                [] index = "Y" -> IF number \in 0..255 THEN "ZEROPAGE_Y" ELSE "ABSOLUTE_Y"]_vars

\* C40: preprocessing terminates on every finite input, the inputs in which
\* a macro's body invokes the same macro included: every run of
\* process_lines comes to its end, returning the processed lines or raising
\* one of the errors it reports, without the nesting of its calls outgrowing
\* the interpreter's call stack
PreprocessingTerminates ==
  <>(pre.returned \/ pre.raised \in {"SyntaxError", "ValueError", "FileNotFoundError"})

====
